---- MODULE Spec2Model ----
(***************************************************************************)
(* Model of the termination and reaping core of stress-ng                  *)
(* (core-killpid.c): stress_killpid, stress_wait_until_reaped,             *)
(* stress_kill_and_wait and stress_kill_and_wait_many, run by one caller   *)
(* process against the operating system's process table.                  *)
(*                                                                         *)
(* One step of the model is one system call of the caller together with   *)
(* the straight-line code around it; the target processes and the run     *)
(* controller (keep_stressing_flag) move between those steps.             *)
(*                                                                         *)
(* Spec runs the core on its own against every pid array and process       *)
(* table.  SpecSpawn runs the spawn step of the stressors that fork or     *)
(* clone a child, and SpecFlock the payload stress_flock shares between    *)
(* its parent and its children.                                            *)
(***************************************************************************)
EXTENDS Integers, Sequences, FiniteSets, TLC

(***************************************************************************)
(* Program constants.                                                      *)
(***************************************************************************)
\* #define MAX_FLOCK_STRESSORS (3): size of the pid array of the bulk caller
MAX_FLOCK_STRESSORS == 3

\* if (count > 120): the interruption count past which the kill is forced
ForceKillCount == 120

\* const pid_t mypid = getpid(): the caller's own pid (init is pid 1)
MyPid == 2

(***************************************************************************)
(* Bounds of the model.                                                    *)
(***************************************************************************)
\* waits the environment may interrupt during one stress_kill_and_wait call
MaxEintr == 131

\* waits the environment may interrupt during one stress_kill_and_wait_many
MaxEintrMany == 2

\* calls of stress_kill_and_wait a caller makes on the same pid
MaxCalls == 2

\* failures of fork() and clone() the environment produces in one run
MaxForkFail == 3

\* args->max_ops: the operation budget of the stressor instance
MaxOps == 2

(***************************************************************************)
(* Pids.  Slot k of a pid array holds the child forked into it, Child(k),  *)
(* or a value that is no child: -1 (failed fork), 0 (unused slot), 1       *)
(* (init) or the caller's own pid.                                         *)
(***************************************************************************)
n_pids == MAX_FLOCK_STRESSORS

Child(k) == MyPid + k

Children == {Child(k) : k \in 1..n_pids}

NonChild == {-1, 0, 1, MyPid}

PidVals == NonChild \cup Children

PidArrays == {a \in [1..n_pids -> PidVals] : \A k \in 1..n_pids : a[k] \in NonChild \cup {Child(k)}}

VARIABLES
    op,        \* entry point called: "one" (stress_kill_and_wait) or "many"
    pids,      \* the pid array argument (one element for "one")
    set_force_killed_counter, \* the bool argument of that name
    keep,      \* value of keep_stressing_flag()
    proc,      \* process table: child pid -> "running" | "zombie" | "none"
    pc,        \* position of the caller
    i,         \* loop index of stress_kill_and_wait_many (0-based)
    pid,       \* pid argument of the running stress_kill_and_wait
    count,     \* local count of stress_wait_until_reaped
    ret,       \* result of the last system call
    err,       \* errno left by the last system call
    kflag,     \* last value keep_stressing_flag() returned to the reap loop
    budget,    \* interruptions the environment may still deliver
    sent,      \* pid -> number of kill(pid, signum) calls issued
    waited,    \* pid -> number of waitpid(pid, ..) calls issued
    reaps,     \* pid -> number of waitpid(pid, ..) calls that returned the pid
    probed,    \* pid -> number of kill(pid, 0) calls issued
    killpid,   \* pid -> number of stress_killpid(pid) calls issued
    forced,    \* value of the forced-kill diagnostic counter
    warned,    \* pid -> number of "attempt to kill pid ignored" messages
    entered,   \* pids that were running when their stress_kill_and_wait began
    returned,  \* pids whose stress_kill_and_wait has returned
    order,     \* pids in the order in which their stress_kill_and_wait returned
    alive0,    \* children that were running when the operation was called
    ncall,     \* number of stress_kill_and_wait calls the caller has made on pids[1]
    snap,      \* calls and process table as the previous call left them
    stressor,  \* stressor whose parent process the caller is, "none" for a bare call
    spc,       \* position of the stressor's parent process
    fi,        \* loop index of the fork loop of stress_flock (0-based)
    cpid,      \* value the last fork() or clone() returned to the parent
    fbudget,   \* failures of fork() the environment may still produce
    fhist,     \* attempts of the current spawn step: errno ("0": success) and
               \* the value of keep_stressing_flag() when the attempt returned
    flog,      \* errno of each "fork failed" message logged
    rc,        \* local exit status of the stressor function
    retval,    \* exit status the stressor function returned, "none" before
    wpc,       \* worker pid -> position in the child prolog and the payload
    reg,       \* worker pid -> counter value it read in inc_counter
    counter,   \* the operation counter of the stressor instance
    alarmed,   \* children that have called stress_parent_died_alarm
    kp,        \* the running call of stress_killpid: its locals, errno, the
               \* state of its target and the system calls it has made
    wl,        \* the running work loop of one worker: its stressor, position,
               \* locals and the metric slots of the instance
    oom,       \* the running call of stress_oomable_child: its position, the
               \* worker it waits for and the workers it has spawned
    pp,        \* stress_pipe after its fork: the parent, the child and the pipe
    ml,        \* stress_mlock_child: the table of mappings and the address space
    cl,        \* the client child of stress_udp or stress_rawpkt and its parent
    vs,        \* stress_vecshuf: the vectors and the masks of one vector type
    mf,        \* stress_mmapfixed_is_mapped_slow: its arguments, locals and calls
    ev         \* efi_vars_get: the directory entries and their ignore flags

vars == <<op, pids, set_force_killed_counter, keep, proc, pc, i, pid, count, ret,
          err, kflag, budget, sent, waited, reaps, probed, killpid, forced, warned,
          entered, returned, order, alive0, ncall, snap, stressor, spc, fi, cpid,
          fbudget, fhist, flog, rc, retval, wpc, reg, counter, alarmed, kp, wl, oom, pp, ml, cl, vs, mf, ev>>

\* the variables of the specifications that run one function on its own
nvars == <<pp, ml, cl, vs, mf, ev>>

xvars == <<kp, wl, oom, nvars>>

\* the variables of the reaping core and of the stressors' parent and workers
base == <<op, pids, set_force_killed_counter, keep, proc, pc, i, pid, count, ret,
          err, kflag, budget, sent, waited, reaps, probed, killpid, forced, warned,
          entered, returned, order, alive0, ncall, snap, stressor, spc, fi, cpid,
          fbudget, fhist, flog, rc, retval, wpc, reg, counter, alarmed>>

svars == <<stressor, spc, fi, cpid, fbudget, fhist, flog, rc, retval, wpc, reg,
           counter, alarmed, xvars>>

calls == <<sent, waited, reaps, probed, killpid, forced, warned>>

Zero == [p \in PidVals |-> 0]

Bump(f, p) == [f EXCEPT ![p] = @ + 1]

\* state of pid p in the process table, as kill() and waitpid() see it
ProcState(p) == IF p \in Children THEN proc[p] ELSE "none"

\* the pid values held by the pid array a
ArrayPids(a) == {a[k] : k \in 1..Len(a)}

Targets == (ArrayPids(pids) \cup {cpid}) \cap Children

\* snapshot of the calls issued and of the process table
NoSnap == [sent |-> Zero, waited |-> Zero, probed |-> Zero, killpid |-> Zero,
           forced |-> 0, warned |-> Zero, proc |-> [p \in Children |-> "running"],
           returned |-> {}]

(***************************************************************************)
(* Conditions of the code.                                                 *)
(***************************************************************************)
\* if ((pid == 0) || (pid == 1) || (pid == mypid))
KawWarn(p) == (p = 0) \/ (p = 1) \/ (p = MyPid)

\* the guard with init forgotten: pid < 1
KawRefuse_NoInit(p) == (p < 1) \/ (p = MyPid)

\* if ((pid <= 1) || (pid == mypid)) return;
KawRefuse(p) == (p <= 1) \/ (p = MyPid)

\* the kill loop stopping one element short
KillLoopCond_Short(j) == j < n_pids - 1

\* for (i = 0; i < n_pids; i++), kill loop
KillLoopCond(j) == j < n_pids

\* the reap loop stopping one element short
ReapLoopCond_Short(j) == j < n_pids - 1

\* for (i = 0; i < n_pids; i++), reap loop
ReapLoopCond(j) == j < n_pids

\* the kill loop filter without the lower bound
ManyKillOk_NoLow(p) == p # MyPid

\* if ((pids[i] > 1) && (pids[i] != mypid)), kill loop
ManyKillOk(p) == (p > 1) /\ (p # MyPid)

\* the reap loop without its filter, leaving the guard to stress_kill_and_wait
ManyReapOk_All(p) == TRUE

\* if ((pids[i] > 1) && (pids[i] != mypid)), reap loop
ManyReapOk(p) == (p > 1) /\ (p # MyPid)

\* the loop left on success only
WaitBreak_OkOnly(r, e) == r >= 0

\* the loop left after any wait, interrupted or not
WaitBreak_Always(r, e) == TRUE

\* if ((ret >= 0) || (errno != EINTR)) break;
WaitBreak(r, e) == (r >= 0) \/ (e # "EINTR")

\* the probe testing for the wrong errno
ProbeGone_Eperm(r, e) == (r < 0) /\ (e = "EPERM")

\* if ((kill(pid, 0) < 0) && (errno == ESRCH)) return;
ProbeGone(r, e) == (r < 0) /\ (e = "ESRCH")

\* the escalation taking the threshold of the sleep, count > 10
ForceNow_Early(c) == c > 10

\* the escalation threshold ten times too large
ForceNow_Late(c) == c > 10 * ForceKillCount

\* if (count > 120)
ForceNow(c) == c > ForceKillCount

(***************************************************************************)
(* The operating system.                                                   *)
(***************************************************************************)
\* waitpid(p, &wstatus, 0): the <<ret, errno>> outcomes that can be
\* delivered now.  A zombie child is reaped; a pid that is no child of the
\* caller fails with ECHILD; a running child blocks the caller, which only
\* returns when a signal interrupts the wait (EINTR).
WaitOutcomes(p) ==
    CASE ProcState(p) = "zombie" -> {<<p, "0">>}
      [] ProcState(p) = "none" -> {<<-1, "ECHILD">>}
      [] OTHER -> IF budget > 0 THEN {<<-1, "EINTR">>} ELSE {}

\* kill(p, 0): succeeds on a running process and on a zombie
ProbeOutcome(p) == IF ProcState(p) = "none" THEN <<-1, "ESRCH">> ELSE <<0, "0">>

\* a function that is not running
Off == [pc |-> "off"]

\* none of the functions that are run on their own is running
AllOff == pp = Off /\ ml = Off /\ cl = Off /\ vs = Off /\ mf = Off /\ ev = Off

\* no call of stress_killpid is running
KpIdle == [pc |-> "idle", linux |-> FALSE, target |-> "none", pidfd |-> -1,
           ret |-> 0, errno |-> "0", saved_errno |-> "0", result |-> 0, log |-> <<>>]

\* the metric slots of an instance
Slots == {0, 1}

\* a metric slot stress_metrics_set has not written
Unset == [rate |-> <<0, 1>>, scale |-> "unset"]

\* no work loop is running
WlIdle == [st |-> "none", pc |-> "idle", save_metrics |-> FALSE, cont |-> FALSE,
           acquired |-> FALSE, locked |-> FALSE, mlocked |-> FALSE,
           why |-> "none", kaw |-> <<>>, duration |-> [s \in Slots |-> 0],
           count |-> [s \in Slots |-> 0], metrics |-> [s \in Slots |-> Unset],
           writes |-> [s \in Slots |-> 0]]

\* no call of stress_oomable_child is running
OomIdle == [pc |-> "idle", child |-> "none", spawned |-> 0, killed |-> 0,
            start |-> <<>>, death |-> <<>>, rc |-> "none"]

Init ==
    /\ op \in {"one", "many"}
    /\ pids \in IF op = "one" THEN {<<p>> : p \in NonChild \cup {Child(1)}} ELSE PidArrays
    /\ set_force_killed_counter \in BOOLEAN
    /\ keep \in BOOLEAN
    /\ proc \in {f \in [Children -> {"running", "zombie", "none"}] :
                    \A p \in Children \ ArrayPids(pids) : f[p] = "running"}
    /\ pc = IF op = "one" THEN "kaw" ELSE "many_kill"
    /\ i = 0
    /\ pid = pids[1]
    /\ count = 0
    /\ ret = 0
    /\ err = "0"
    /\ kflag = "unread"
    /\ budget = IF op = "one" THEN MaxEintr ELSE MaxEintrMany
    /\ sent = Zero
    /\ waited = Zero
    /\ reaps = Zero
    /\ probed = Zero
    /\ killpid = Zero
    /\ forced = 0
    /\ warned = Zero
    /\ entered = {}
    /\ returned = {}
    /\ order = <<>>
    /\ alive0 = {p \in Children : proc[p] = "running"} \cap ArrayPids(pids)
    /\ ncall = 1
    /\ snap = NoSnap
    /\ stressor = "none"
    /\ spc = "none"
    /\ fi = 0
    /\ cpid = 0
    /\ fbudget = 0
    /\ fhist = <<>>
    /\ flog = <<>>
    /\ rc = "none"
    /\ retval = "none"
    /\ wpc = [w \in {MyPid} \cup Children |-> "none"]
    /\ reg = [w \in {MyPid} \cup Children |-> 0]
    /\ counter = 0
    /\ alarmed = {}
    /\ kp = KpIdle
    /\ wl = WlIdle
    /\ oom = OomIdle
    /\ AllOff

(***************************************************************************)
(* stress_kill_and_wait_many                                               *)
(***************************************************************************)
\* one iteration of the kill loop
ManyKill ==
    /\ pc = "many_kill"
    /\ sent' = IF ManyKillOk(pids[i + 1]) THEN Bump(sent, pids[i + 1]) ELSE sent
    /\ IF KillLoopCond(i + 1)
          THEN i' = i + 1 /\ pc' = pc
          ELSE i' = 0 /\ pc' = IF ReapLoopCond(0) THEN "many_reap" ELSE "done"
    /\ UNCHANGED <<order, alive0, ncall, snap, svars, op, pids, set_force_killed_counter, keep, proc, pid, count, ret,
                   err, kflag, budget, waited, reaps, probed, killpid, forced, warned,
                   entered, returned>>

\* one iteration of the reap loop: call stress_kill_and_wait or skip the slot
ManyReap ==
    /\ pc = "many_reap"
    /\ IF ManyReapOk(pids[i + 1])
          THEN pc' = "kaw" /\ pid' = pids[i + 1] /\ i' = i
          ELSE /\ i' = i + 1
               /\ pc' = IF ReapLoopCond(i + 1) THEN "many_reap" ELSE "done"
               /\ pid' = pid
    /\ UNCHANGED <<order, alive0, ncall, snap, svars, op, pids, set_force_killed_counter, keep, proc, count, ret, err,
                   kflag, budget, calls, entered, returned>>

\* return of stress_kill_and_wait to its caller
KawReturn ==
    /\ returned' = returned \cup {pid}
    /\ order' = Append(order, pid)
    /\ IF op = "many"
          THEN i' = i + 1 /\ pc' = IF ReapLoopCond(i + 1) THEN "many_reap" ELSE "done"
          ELSE i' = i /\ pc' = "done"

(***************************************************************************)
(* stress_kill_and_wait                                                    *)
(***************************************************************************)
KillAndWait ==
    /\ pc = "kaw"
    /\ warned' = IF KawWarn(pid) THEN Bump(warned, pid) ELSE warned
    /\ IF KawRefuse(pid)
          THEN /\ KawReturn
               /\ UNCHANGED <<sent, count, entered>>
          ELSE /\ sent' = Bump(sent, pid)
               /\ entered' = IF ProcState(pid) = "running" THEN entered \cup {pid} ELSE entered
               /\ count' = 0
               /\ pc' = "wur_wait"
               /\ UNCHANGED <<i, returned, order>>
    /\ UNCHANGED <<alive0, ncall, snap, svars, op, pids, set_force_killed_counter, keep, proc, pid, ret, err,
                   kflag, budget, waited, reaps, probed, killpid, forced>>

(***************************************************************************)
(* stress_wait_until_reaped                                                *)
(***************************************************************************)
\* errno = 0; ret = waitpid(pid, &wstatus, 0); break unless interrupted
WaitPid ==
    /\ pc = "wur_wait"
    /\ \E o \in WaitOutcomes(pid) :
          /\ ret' = o[1]
          /\ err' = o[2]
          /\ reaps' = IF o[1] >= 0 THEN Bump(reaps, pid) ELSE reaps
          /\ proc' = IF o[1] >= 0 /\ pid \in Children
                        THEN [proc EXCEPT ![pid] = "none"] ELSE proc
          /\ budget' = IF o[2] = "EINTR" THEN budget - 1 ELSE budget
          /\ IF WaitBreak(o[1], o[2])
                THEN KawReturn
                ELSE pc' = "wur_probe" /\ UNCHANGED <<i, returned, order>>
    /\ waited' = Bump(waited, pid)
    /\ UNCHANGED <<alive0, ncall, snap, svars, op, pids, set_force_killed_counter, keep, pid, count, kflag,
                   sent, probed, killpid, forced, warned, entered>>

\* kill(pid, 0): return when the target is gone
Probe ==
    /\ pc = "wur_probe"
    /\ probed' = Bump(probed, pid)
    /\ ret' = ProbeOutcome(pid)[1]
    /\ err' = ProbeOutcome(pid)[2]
    /\ IF ProbeGone(ProbeOutcome(pid)[1], ProbeOutcome(pid)[2])
          THEN KawReturn
          ELSE pc' = "wur_retry" /\ UNCHANGED <<i, returned, order>>
    /\ UNCHANGED <<alive0, ncall, snap, svars, op, pids, set_force_killed_counter, keep, proc, pid, count, kflag,
                   budget, sent, waited, reaps, killpid, forced, warned, entered>>

\* force_killed_counter(args)
force_killed_counter(c) == c + 1

\* count++; re-send signum and force the kill when the run is stopping;
\* shim_sched_yield(); sleep(1) after ten interruptions; next iteration
Retry ==
    /\ pc = "wur_retry"
    /\ count' = count + 1
    /\ kflag' = IF keep THEN "keep" ELSE "stop"
    /\ IF ~keep
          THEN /\ sent' = Bump(sent, pid)
               /\ IF ForceNow(count + 1)
                     THEN /\ forced' = IF set_force_killed_counter
                                          THEN force_killed_counter(forced) ELSE forced
                          /\ killpid' = Bump(killpid, pid)
                     ELSE UNCHANGED <<forced, killpid>>
          ELSE UNCHANGED <<sent, forced, killpid>>
    /\ pc' = "wur_wait"
    /\ UNCHANGED <<order, alive0, ncall, snap, svars, op, pids, set_force_killed_counter, keep, proc, i, pid, ret, err,
                   budget, waited, reaps, probed, warned, entered, returned>>

(***************************************************************************)
(* A caller that calls stress_kill_and_wait again on the same pid.         *)
(***************************************************************************)
CallAgain ==
    /\ op = "one"
    /\ pc = "done"
    /\ ncall < MaxCalls
    /\ ncall' = ncall + 1
    /\ snap' = [sent |-> sent, waited |-> waited, probed |-> probed,
                killpid |-> killpid, forced |-> forced, warned |-> warned,
                proc |-> proc, returned |-> returned]
    /\ pc' = "kaw"
    /\ UNCHANGED <<order, alive0, svars, op, pids, set_force_killed_counter, keep,
                   proc, i, pid, count, ret, err, kflag, budget, calls, entered,
                   returned>>

(***************************************************************************)
(* The environment: target processes and the run controller.               *)
(***************************************************************************)
\* a target exits (on the signal or by itself) and becomes a zombie; the
\* child of a stressor exits by itself in the steps of its own code, so here
\* it dies of a signal that has been sent to it
ProcExit ==
    /\ pc # "done"
    /\ \E p \in Targets :
          /\ proc[p] = "running"
          /\ stressor = "none" \/ sent[p] > 0
          /\ proc' = [proc EXCEPT ![p] = "zombie"]
    /\ UNCHANGED <<order, alive0, ncall, snap, svars, op, pids, set_force_killed_counter, keep, pc, i, pid, count, ret,
                   err, kflag, budget, calls, entered, returned>>

\* an exited target is reaped by somebody else than the reap loop (a SIGCHLD
\* handler, SIGCHLD set to SIG_IGN): it leaves the process table
ProcReapedElsewhere ==
    /\ pc # "done"
    /\ \E p \in Targets :
          /\ proc[p] = "zombie"
          /\ proc' = [proc EXCEPT ![p] = "none"]
    /\ UNCHANGED <<order, alive0, ncall, snap, svars, op, pids, set_force_killed_counter, keep, pc, i, pid, count, ret,
                   err, kflag, budget, calls, entered, returned>>

\* the run controller decides to stop: keep_stressing_flag() becomes false
StopRun ==
    /\ pc # "done"
    /\ keep
    /\ keep' = FALSE
    /\ UNCHANGED <<order, alive0, ncall, snap, svars, op, pids, set_force_killed_counter, proc, pc, i, pid, count, ret,
                   err, kflag, budget, calls, entered, returned>>

Next ==
    \/ ManyKill
    \/ ManyReap
    \/ KillAndWait
    \/ WaitPid
    \/ Probe
    \/ Retry
    \/ CallAgain
    \/ ProcExit
    \/ ProcReapedElsewhere
    \/ StopRun

Spec == Init /\ [][Next]_vars

(***************************************************************************)
(* The stressors: the spawn step of stress_flock, stress_pipe, stress_udp, *)
(* stress_rawpkt, stress_efivar and stress_userfaultfd_child, the first    *)
(* statements of the child each of them creates, and the payload of        *)
(* stress_flock, which its parent and its children run on one operation    *)
(* counter before the parent reaps them with stress_kill_and_wait_many.    *)
(***************************************************************************)
Stressors == {"flock", "pipe", "udp", "rawpkt", "efivar", "userfaultfd"}

\* errno values fork() and clone() fail with: out of process slots, out of
\* memory, and one that no retry can cure
ForkErrnos == {"EAGAIN", "ENOMEM", "ENOSYS"}

\* the processes that run a stressor's code: the parent and its children
Workers == {MyPid} \cup Children

\* variables of the reaping core no stressor step writes before the reap
kvars == <<op, set_force_killed_counter, pc, i, pid, count, ret, err, kflag, budget,
           sent, waited, reaps, probed, killpid, forced, warned, entered, returned, order,
           alive0, ncall, snap, xvars>>

\* int rc = ...: the initial value of the local exit status of each stressor
InitRc(st) ==
    CASE st = "flock" -> "EXIT_FAILURE"
      [] st = "rawpkt" -> "EXIT_FAILURE"
      [] st = "udp" -> "EXIT_SUCCESS"
      [] st = "userfaultfd" -> "EXIT_SUCCESS"
      [] OTHER -> "none"

\* keep_stressing(args): the flag and the operation budget, merged
keep_stressing == keep /\ counter < MaxOps

\* stress_redo_fork(errno): retry a fork that failed for lack of resources
\* while the run should continue
stress_redo_fork(e) == keep /\ e \in {"EAGAIN", "ENOMEM"}

\* if (keep_stressing_flag() && (errno == EAGAIN)) goto again;
UdpRedo_NoFlag(e) == e = "EAGAIN"

UdpRedo(e) == keep /\ e = "EAGAIN"

\* the statements a new child executes, in order, up to its work body
ChildProlog_Late(st) ==
    IF st = "flock"
    THEN <<"sched_settings_apply", "stress_parent_died_alarm", "work">>
    ELSE <<"stress_parent_died_alarm", "sched_settings_apply", "work">>

ChildProlog(st) ==
    CASE st = "pipe" ->
            <<"getpid", "stress_parent_died_alarm", "sched_settings_apply", "work">>
      [] st = "efivar" ->
            <<"getpid", "stress_parent_died_alarm", "stress_set_oom_adjustment",
              "sched_settings_apply", "work">>
      [] OTHER ->
            <<"stress_parent_died_alarm", "sched_settings_apply", "work">>

\* the statement that follows statement s of the child's prolog
NextStep(st, s) ==
    LET prolog == <<"forked">> \o ChildProlog(st)
        k == CHOOSE j \in 1..Len(prolog) : prolog[j] = s
    IN  prolog[k + 1]

\* the attempts of the current spawn step, with the one just made
Hist(e) ==
    LET entry == [err |-> e, keep |-> keep]
    IN  IF fhist # <<>> /\ fhist[Len(fhist)].err = "0"
        THEN <<entry>>
        ELSE Append(fhist, entry)

\* fork() or clone() returns the pid of the new child c to the parent
ForkOk(c) ==
    /\ cpid' = c
    /\ proc' = [proc EXCEPT ![c] = "running"]
    /\ wpc' = [wpc EXCEPT ![c] = "forked"]
    /\ fhist' = Hist("0")
    /\ UNCHANGED fbudget

\* fork() or clone() returns -1 with errno e
ForkFails(e) ==
    /\ fbudget > 0
    /\ fbudget' = fbudget - 1
    /\ cpid' = -1
    /\ fhist' = Hist(e)
    /\ UNCHANGED <<proc, wpc>>

\* a stressor function about to create its first child
InitStress ==
    /\ stressor \in Stressors
    /\ op = "many"
    /\ pids = [k \in 1..n_pids |-> 0]
    /\ set_force_killed_counter = TRUE
    /\ keep \in BOOLEAN
    /\ proc = [p \in Children |-> "none"]
    /\ pc = "idle"
    /\ i = 0
    /\ pid = 0
    /\ count = 0
    /\ ret = 0
    /\ err = "0"
    /\ kflag = "unread"
    /\ budget = MaxEintrMany
    /\ sent = Zero
    /\ waited = Zero
    /\ reaps = Zero
    /\ probed = Zero
    /\ killpid = Zero
    /\ forced = 0
    /\ warned = Zero
    /\ entered = {}
    /\ returned = {}
    /\ order = <<>>
    /\ alive0 = {}
    /\ ncall = 1
    /\ snap = NoSnap
    /\ spc = "fork"
    /\ fi = 0
    /\ cpid = 0
    /\ fbudget = MaxForkFail
    /\ fhist = <<>>
    /\ flog = <<>>
    /\ rc = InitRc(stressor)
    /\ retval = "none"
    /\ wpc = [w \in Workers |-> IF w = MyPid THEN "spawn" ELSE "unborn"]
    /\ reg = [w \in Workers |-> 0]
    /\ counter = 0
    /\ alarmed = {}
    /\ kp = KpIdle
    /\ wl = WlIdle
    /\ oom = OomIdle
    /\ AllOff

\* stress_flock: one iteration of the fork loop
FlockSpawn ==
    /\ stressor = "flock" /\ spc = "fork"
    /\ \/ /\ ForkOk(Child(fi + 1))
          /\ fi' = fi + 1
          /\ spc' = IF fi + 1 < MAX_FLOCK_STRESSORS THEN "fork" ELSE "payload"
       \/ /\ \E e \in ForkErrnos : ForkFails(e)
          /\ spc' = "reap"
          /\ UNCHANGED fi
    /\ pids' = [pids EXCEPT ![fi + 1] = cpid']
    /\ UNCHANGED <<kvars, keep, stressor, flog, rc, retval, reg, counter, alarmed>>

\* stress_pipe: pid = fork() and the branch taken on its failure
PipeSpawn ==
    /\ stressor = "pipe" /\ spc = "fork"
    /\ \/ /\ ForkOk(Child(1))
          /\ spc' = "parent"
          /\ UNCHANGED <<flog, retval>>
       \/ \E e \in ForkErrnos :
             /\ ForkFails(e)
             /\ IF stress_redo_fork(e)
                THEN spc' = "fork" /\ UNCHANGED <<flog, retval>>
                ELSE IF ~keep_stressing
                THEN spc' = "returned" /\ retval' = "EXIT_SUCCESS" /\ UNCHANGED flog
                ELSE /\ spc' = "returned"
                     /\ flog' = Append(flog, e)
                     /\ retval' = "EXIT_FAILURE"
    /\ UNCHANGED <<kvars, pids, keep, stressor, fi, rc, reg, counter, alarmed>>

\* stress_udp: pid = fork() and the branch taken on its failure
UdpSpawn ==
    /\ stressor = "udp" /\ spc = "fork"
    /\ \/ /\ ForkOk(Child(1))
          /\ spc' = "parent"
          /\ UNCHANGED <<flog, retval>>
       \/ \E e \in ForkErrnos :
             /\ ForkFails(e)
             /\ IF UdpRedo(e)
                THEN spc' = "fork" /\ UNCHANGED <<flog, retval>>
                ELSE /\ spc' = "returned"
                     /\ flog' = Append(flog, e)
                     /\ retval' = "EXIT_FAILURE"
    /\ UNCHANGED <<kvars, pids, keep, stressor, fi, rc, reg, counter, alarmed>>

\* stress_rawpkt: pid = fork() and the branch taken on its failure
RawpktSpawn ==
    /\ stressor = "rawpkt" /\ spc = "fork"
    /\ \/ /\ ForkOk(Child(1))
          /\ spc' = "parent"
          /\ UNCHANGED <<flog, rc, retval>>
       \/ \E e \in ForkErrnos :
             /\ ForkFails(e)
             /\ IF stress_redo_fork(e)
                THEN spc' = "fork" /\ UNCHANGED <<flog, rc, retval>>
                ELSE IF ~keep_stressing
                THEN /\ spc' = "returned"
                     /\ rc' = "EXIT_SUCCESS"
                     /\ retval' = "EXIT_SUCCESS"
                     /\ UNCHANGED flog
                ELSE /\ spc' = "returned"
                     /\ flog' = Append(flog, e)
                     /\ retval' = rc
                     /\ UNCHANGED rc
    /\ UNCHANGED <<kvars, pids, keep, stressor, fi, reg, counter, alarmed>>

\* stress_efivar: pid = fork() and the branch taken on its failure; after the
\* pr_err the parent falls through to finish: and returns EXIT_SUCCESS
EfivarSpawn ==
    /\ stressor = "efivar" /\ spc = "fork"
    /\ \/ /\ ForkOk(Child(1))
          /\ spc' = "parent"
          /\ UNCHANGED <<flog, retval>>
       \/ \E e \in ForkErrnos :
             /\ ForkFails(e)
             /\ IF stress_redo_fork(e)
                THEN spc' = "fork" /\ UNCHANGED <<flog, retval>>
                ELSE IF ~keep_stressing
                THEN spc' = "returned" /\ retval' = "EXIT_SUCCESS" /\ UNCHANGED flog
                ELSE /\ spc' = "returned"
                     /\ flog' = Append(flog, e)
                     /\ retval' = "EXIT_SUCCESS"
    /\ UNCHANGED <<kvars, pids, keep, stressor, fi, rc, reg, counter, alarmed>>

\* stress_userfaultfd_child: pid = clone(..) and the branch taken on its
\* failure
UffdSpawn ==
    /\ stressor = "userfaultfd" /\ spc = "fork"
    /\ \/ /\ ForkOk(Child(1))
          /\ spc' = "parent"
          /\ UNCHANGED flog
       \/ \E e \in ForkErrnos :
             /\ ForkFails(e)
             /\ flog' = Append(flog, e)
             /\ spc' = "unreg"
    /\ UNCHANGED <<kvars, pids, keep, stressor, fi, rc, retval, reg, counter, alarmed>>

\* stress_userfaultfd_child, unreg: the UFFDIO_UNREGISTER ioctl succeeds or
\* fails, then the function returns rc
UffdUnreg ==
    /\ stressor = "userfaultfd" /\ spc = "unreg"
    /\ \E ok \in BOOLEAN : rc' = IF ok THEN rc ELSE "EXIT_FAILURE"
    /\ retval' = rc'
    /\ spc' = "returned"
    /\ UNCHANGED <<kvars, pids, keep, proc, stressor, fi, cpid, fbudget, fhist, flog,
                   wpc, reg, counter, alarmed>>

\* a new child executes the next statement of its prolog
ChildStep ==
    /\ \E c \in Children :
          /\ proc[c] = "running"
          /\ wpc[c] \in {"forked"} \cup (ArrayPids(ChildProlog(stressor)) \ {"work"})
          /\ LET s == NextStep(stressor, wpc[c])
             IN  /\ wpc' = [wpc EXCEPT ![c] = IF s = "work" /\ stressor = "flock"
                                               THEN "lock" ELSE s]
                 /\ alarmed' = IF s = "stress_parent_died_alarm"
                               THEN alarmed \cup {c} ELSE alarmed
    /\ UNCHANGED <<kvars, pids, keep, proc, stressor, spc, fi, cpid, fbudget, fhist,
                   flog, rc, retval, reg, counter>>

\* the worker still runs: the parent always, a child until it exits
Alive(w) == IF w = MyPid THEN TRUE ELSE proc[w] = "running"

\* stress_flock_child: flock(fd, ..) == 0 and cont = keep_stressing(args) is
\* true.  The lock belongs to the open file description the parent opened
\* before the fork loop, which all the workers share, so no worker's lock
\* excludes another's.
FlockAcquire ==
    /\ \E w \in Workers :
          /\ Alive(w) /\ wpc[w] = "lock" /\ keep_stressing
          /\ wpc' = [wpc EXCEPT ![w] = "inc"]
    /\ UNCHANGED <<kvars, pids, keep, proc, stressor, spc, fi, cpid, fbudget, fhist,
                   flog, rc, retval, reg, counter, alarmed>>

\* stress_flock_child: keep_stressing(args) is false, the worker leaves the
\* loop
FlockBreak ==
    /\ \E w \in Workers :
          /\ Alive(w) /\ wpc[w] = "lock" /\ ~keep_stressing
          /\ wpc' = [wpc EXCEPT ![w] = "break"]
    /\ UNCHANGED <<kvars, pids, keep, proc, stressor, spc, fi, cpid, fbudget, fhist,
                   flog, rc, retval, reg, counter, alarmed>>

\* value inc_counter(args) stores when it has read r
inc_counter(r) == r + 1

\* inc_counter(args), first half: the worker reads the counter
IncLoad ==
    /\ \E w \in Workers :
          /\ Alive(w) /\ wpc[w] = "inc"
          /\ reg' = [reg EXCEPT ![w] = counter]
          /\ wpc' = [wpc EXCEPT ![w] = "store"]
    /\ UNCHANGED <<kvars, pids, keep, proc, stressor, spc, fi, cpid, fbudget, fhist,
                   flog, rc, retval, counter, alarmed>>

\* inc_counter(args), second half: the worker writes the counter back; then
\* flock(fd, LOCK_UN) and the next lock
IncStore ==
    /\ \E w \in Workers :
          /\ Alive(w) /\ wpc[w] = "store"
          /\ counter' = inc_counter(reg[w])
          /\ reg' = [reg EXCEPT ![w] = 0]
          /\ wpc' = [wpc EXCEPT ![w] = "lock"]
    /\ UNCHANGED <<kvars, pids, keep, proc, stressor, spc, fi, cpid, fbudget, fhist,
                   flog, rc, retval, alarmed>>

\* stress_flock, child branch: _exit(EXIT_SUCCESS)
FlockChildExit ==
    /\ \E c \in Children :
          /\ proc[c] = "running" /\ wpc[c] = "break"
          /\ wpc' = [wpc EXCEPT ![c] = "exited"]
          /\ proc' = [proc EXCEPT ![c] = "zombie"]
    /\ UNCHANGED <<kvars, pids, keep, stressor, spc, fi, cpid, fbudget, fhist,
                   flog, rc, retval, reg, counter, alarmed>>

\* stress_flock, after the fork loop: the parent starts the payload itself
FlockParentStart ==
    /\ stressor = "flock" /\ spc = "payload" /\ wpc[MyPid] = "spawn"
    /\ wpc' = [wpc EXCEPT ![MyPid] = "lock"]
    /\ UNCHANGED <<kvars, pids, keep, proc, stressor, spc, fi, cpid, fbudget, fhist,
                   flog, rc, retval, reg, counter, alarmed>>

\* stress_flock: the parent's stress_flock_child returns; rc = EXIT_SUCCESS
FlockParentDone ==
    /\ stressor = "flock" /\ spc = "payload" /\ wpc[MyPid] = "break"
    /\ wpc' = [wpc EXCEPT ![MyPid] = "done"]
    /\ rc' = "EXIT_SUCCESS"
    /\ spc' = "reap"
    /\ UNCHANGED <<kvars, pids, keep, proc, stressor, fi, cpid, fbudget, fhist,
                   flog, retval, reg, counter, alarmed>>

\* stress_flock, reap: stress_kill_and_wait_many(args, pids,
\* MAX_FLOCK_STRESSORS, SIGALRM, true) is called
FlockReap ==
    /\ stressor = "flock" /\ spc = "reap"
    /\ spc' = "in_many"
    /\ pc' = "many_kill"
    /\ i' = 0
    /\ alive0' = {p \in Children : proc[p] = "running"} \cap ArrayPids(pids)
    /\ UNCHANGED <<op, set_force_killed_counter, pid, count, ret, err, kflag, budget,
                   sent, waited, reaps, probed, killpid, forced, warned, entered, returned,
                   order, ncall, snap, pids, keep, proc, stressor, fi, cpid, fbudget,
                   fhist, flog, rc, retval, wpc, reg, counter, alarmed, xvars>>

\* stress_flock: stress_kill_and_wait_many has returned; return rc
FlockReturn ==
    /\ stressor = "flock" /\ spc = "in_many" /\ pc = "done"
    /\ spc' = "returned"
    /\ retval' = rc
    /\ UNCHANGED <<kvars, pids, keep, proc, stressor, fi, cpid, fbudget, fhist,
                   flog, rc, wpc, reg, counter, alarmed>>

\* the spawn step of every stressor, the prolog of the children, and the
\* reaping of the children of stress_flock when one of its forks failed
NextSpawn ==
    \/ FlockSpawn
    \/ PipeSpawn
    \/ UdpSpawn
    \/ RawpktSpawn
    \/ EfivarSpawn
    \/ UffdSpawn
    \/ UffdUnreg
    \/ ChildStep
    \/ FlockReap
    \/ FlockReturn
    \/ ManyKill
    \/ ManyReap
    \/ KillAndWait
    \/ WaitPid
    \/ Probe
    \/ Retry
    \/ ProcExit
    \/ StopRun

SpecSpawn == InitStress /\ [][NextSpawn]_vars

\* stress_flock when its fork loop has ended with every fork successful: the
\* children are new, the parent is about to start the payload itself
InitFlock ==
    /\ stressor = "flock"
    /\ op = "many"
    /\ pids = [k \in 1..n_pids |-> Child(k)]
    /\ set_force_killed_counter = TRUE
    /\ keep = TRUE
    /\ proc = [p \in Children |-> "running"]
    /\ pc = "idle"
    /\ i = 0
    /\ pid = 0
    /\ count = 0
    /\ ret = 0
    /\ err = "0"
    /\ kflag = "unread"
    /\ budget = MaxEintrMany
    /\ sent = Zero
    /\ waited = Zero
    /\ reaps = Zero
    /\ probed = Zero
    /\ killpid = Zero
    /\ forced = 0
    /\ warned = Zero
    /\ entered = {}
    /\ returned = {}
    /\ order = <<>>
    /\ alive0 = {}
    /\ ncall = 1
    /\ snap = NoSnap
    /\ spc = "payload"
    /\ fi = MAX_FLOCK_STRESSORS
    /\ cpid = Child(MAX_FLOCK_STRESSORS)
    /\ fbudget = MaxForkFail
    /\ fhist = <<[err |-> "0", keep |-> TRUE]>>
    /\ flog = <<>>
    /\ rc = InitRc("flock")
    /\ retval = "none"
    /\ wpc = [w \in Workers |-> IF w = MyPid THEN "spawn" ELSE "forked"]
    /\ reg = [w \in Workers |-> 0]
    /\ counter = 0
    /\ alarmed = {}
    /\ kp = KpIdle
    /\ wl = WlIdle
    /\ oom = OomIdle
    /\ AllOff

\* the payload of stress_flock in its parent and its children, up to the
\* parent's call of stress_kill_and_wait_many
NextFlock ==
    \/ ChildStep
    \/ FlockParentStart
    \/ FlockAcquire
    \/ FlockBreak
    \/ IncLoad
    \/ IncStore
    \/ FlockChildExit
    \/ FlockParentDone
    \/ StopRun

SpecFlock == InitFlock /\ [][NextFlock]_vars

(***************************************************************************)
(* Properties.                                                             *)

(***************************************************************************)
(* stress_killpid, run on its own: one call on a target that is running,   *)
(* a zombie or gone, in the build with process_mrelease and in the build   *)
(* without it, every system call with each of its outcomes.                *)
(***************************************************************************)
\* nothing else of the program runs
BaseIdle ==
    /\ op = "one"
    /\ pids = <<0>>
    /\ set_force_killed_counter = FALSE
    /\ keep = TRUE
    /\ proc = [p \in Children |-> "none"]
    /\ pc = "idle"
    /\ i = 0
    /\ pid = 0
    /\ count = 0
    /\ ret = 0
    /\ err = "0"
    /\ kflag = "unread"
    /\ budget = 0
    /\ sent = Zero
    /\ waited = Zero
    /\ reaps = Zero
    /\ probed = Zero
    /\ killpid = Zero
    /\ forced = 0
    /\ warned = Zero
    /\ entered = {}
    /\ returned = {}
    /\ order = <<>>
    /\ alive0 = {}
    /\ ncall = 1
    /\ snap = NoSnap
    /\ stressor = "none"
    /\ spc = "none"
    /\ fi = 0
    /\ cpid = 0
    /\ fbudget = 0
    /\ fhist = <<>>
    /\ flog = <<>>
    /\ rc = "none"
    /\ retval = "none"
    /\ wpc = [w \in {MyPid} \cup Children |-> "none"]
    /\ reg = [w \in {MyPid} \cup Children |-> 0]
    /\ counter = 0
    /\ alarmed = {}

\* the descriptor shim_pidfd_open returns when it succeeds
PidFd == 3

\* a system call that succeeds leaves errno as it is
Outcome(r, e) == [ret |-> r, errno |-> e]

\* shim_pidfd_open(pid, 0)
PidfdOpenOutcomes ==
    IF kp.target = "none"
    THEN {Outcome(-1, "ESRCH"), Outcome(-1, "ENOSYS")}
    ELSE {Outcome(PidFd, kp.errno), Outcome(-1, "EMFILE"), Outcome(-1, "ENOSYS")}

\* kill(pid, SIGKILL)
KillOutcomes ==
    IF kp.target = "none"
    THEN {Outcome(-1, "ESRCH")}
    ELSE {Outcome(0, kp.errno), Outcome(-1, "EPERM")}

\* shim_process_mrelease(pidfd, 0)
MreleaseOutcomes == {Outcome(0, kp.errno), Outcome(-1, "EINVAL"), Outcome(-1, "ESRCH")}

\* close(pidfd)
CloseOutcomes == {Outcome(0, kp.errno), Outcome(-1, "EINTR"), Outcome(-1, "EIO")}

Logged(call, o) == Append(kp.log, [call |-> call, ret |-> o.ret, errno |-> o.errno])

\* if (pidfd >= 0)
HaveFd(fd) == fd >= 0

\* the release attempted whatever kill returned
ReleaseOk_Always(r) == TRUE

\* if (ret == 0)
ReleaseOk(r) == r = 0

\* errno left as close and process_mrelease set it
RestoreErrno_None(saved, cur) == cur

\* errno = saved_errno;
RestoreErrno(saved, cur) == saved

InitKillpid ==
    /\ BaseIdle
    /\ wl = WlIdle
    /\ oom = OomIdle
    /\ AllOff
    /\ \E l \in BOOLEAN, t \in {"running", "zombie", "none"}, e \in {"0", "EINTR"} :
          kp = [KpIdle EXCEPT !.pc = IF l THEN "open" ELSE "kill",
                              !.linux = l, !.target = t, !.errno = e]

\* pidfd = shim_pidfd_open(pid, 0);
KpOpen ==
    /\ kp.pc = "open"
    /\ \E o \in PidfdOpenOutcomes :
          kp' = [kp EXCEPT !.pidfd = o.ret, !.errno = o.errno,
                           !.log = Logged("pidfd_open", o), !.pc = "kill"]
    /\ UNCHANGED <<base, wl, oom, nvars>>

\* ret = kill(pid, SIGKILL); if (pidfd >= 0) { int saved_errno = errno; ...
\* and, in the build without process_mrelease, return kill(pid, SIGKILL);
KpKill ==
    /\ kp.pc = "kill"
    /\ \E o \in KillOutcomes :
          kp' = [kp EXCEPT !.ret = o.ret, !.errno = o.errno,
                           !.log = Logged("kill", o),
                           !.saved_errno = IF kp.linux /\ HaveFd(kp.pidfd)
                                           THEN o.errno ELSE @,
                           !.pc = IF kp.linux /\ HaveFd(kp.pidfd)
                                  THEN (IF ReleaseOk(o.ret) THEN "release" ELSE "close")
                                  ELSE "return"]
    /\ UNCHANGED <<base, wl, oom, nvars>>

\* (void)shim_process_mrelease(pidfd, 0);
KpRelease ==
    /\ kp.pc = "release"
    /\ \E o \in MreleaseOutcomes :
          kp' = [kp EXCEPT !.errno = o.errno, !.log = Logged("process_mrelease", o),
                           !.pc = "close"]
    /\ UNCHANGED <<base, wl, oom, nvars>>

\* (void)close(pidfd); errno = saved_errno;
KpClose ==
    /\ kp.pc = "close"
    /\ \E o \in CloseOutcomes :
          kp' = [kp EXCEPT !.errno = RestoreErrno(kp.saved_errno, o.errno),
                           !.log = Logged("close", o), !.pc = "return"]
    /\ UNCHANGED <<base, wl, oom, nvars>>

\* return ret;
KpReturn ==
    /\ kp.pc = "return"
    /\ kp' = [kp EXCEPT !.result = kp.ret, !.pc = "done"]
    /\ UNCHANGED <<base, wl, oom, nvars>>

\* the target dies, of the SIGKILL or by itself
KpTargetExit ==
    /\ kp.pc \notin {"idle", "done"}
    /\ kp.target = "running"
    /\ kp' = [kp EXCEPT !.target = "zombie"]
    /\ UNCHANGED <<base, wl, oom, nvars>>

NextKillpid ==
    \/ KpOpen
    \/ KpKill
    \/ KpRelease
    \/ KpClose
    \/ KpReturn
    \/ KpTargetExit

SpecKillpid == InitKillpid /\ [][NextKillpid]_vars

(***************************************************************************)
(* The work loops of the stressors, run on their own: one worker of        *)
(* stress-flock, stress-mlock, stress-pipe, stress-efivar or               *)
(* stress-userfaultfd runs its main loop and its teardown while the run    *)
(* may be stopped at any moment.  Times are whole ticks; a rate is the     *)
(* pair <<numerator, denominator>> of the division the code performs, and  *)
(* 0.0 is <<0, 1>>.                                                        *)
(***************************************************************************)
MaxTick == 1

\* the values stress_time_now() - t can take
Ticks == 0..MaxTick

\* what a work loop leaves alone
quiet == <<op, pids, set_force_killed_counter, proc, pc, i, pid, count, ret,
           err, kflag, budget, sent, waited, reaps, probed, killpid, forced, warned,
           entered, returned, order, alive0, ncall, snap, stressor, spc, fi, cpid,
           fbudget, fhist, flog, rc, retval, wpc, reg, alarmed, kp, oom, nvars>>

LoopStressors == {"flock", "mlock", "pipe", "efivar", "userfaultfd"}

\* the first statement of the worker's body
LoopEntry(st) ==
    CASE st = "flock" -> "lock"
      [] st = "mlock" -> "precheck"
      [] st = "pipe" -> "write"
      [] st = "efivar" -> "for"
      [] st = "userfaultfd" -> "top"

\* the division left out: the rate is the quotient whatever its divisor
PerCall_NoGuard(duration, cnt) == <<duration, cnt>>

\* rate = (lock_count > 0.0) ? lock_duration / lock_count : 0.0;
PerCall(duration, cnt) == IF cnt > 0 THEN <<duration, cnt>> ELSE <<0, 1>>

\* the test of the divisor left out
PerSec_NoGuard(cnt, duration) == <<cnt, duration>>

\* rate = (duration > 0.0) ? count / duration : 0.0;
PerSec(cnt, duration) == IF duration > 0 THEN <<cnt, duration>> ELSE <<0, 1>>

\* stress_metrics_set(args, idx, description, rate * scale)
stress_metrics_set(w, idx, rate, scale) ==
    [w EXCEPT !.metrics[idx] = [rate |-> rate, scale |-> scale],
              !.writes[idx] = @ + 1]

\* duration += stress_time_now() - t; count += 1.0;
Timed(w, idx, d) == [w EXCEPT !.duration[idx] = @ + d, !.count[idx] = @ + 1]

\* a statement of the loop that is not inc_counter
LoopStep(w) == wl' = w /\ UNCHANGED <<keep, counter, quiet>>

\* a statement of the loop that ends in inc_counter(args)
LoopInc(w) == wl' = w /\ counter' = inc_counter(counter) /\ UNCHANGED <<keep, quiet>>

InitLoop ==
    /\ BaseIdle
    /\ kp = KpIdle
    /\ oom = OomIdle
    /\ AllOff
    /\ \E st \in LoopStressors, sm \in BOOLEAN :
          /\ st # "flock" => sm
          /\ wl = [WlIdle EXCEPT !.st = st, !.pc = LoopEntry(st), !.save_metrics = sm]

\* t = stress_time_now(); if (flock(fd, LOCK_EX) == 0) {
\*     lock_duration += stress_time_now() - t; lock_count += 1.0;
FlockLock ==
    /\ wl.st = "flock" /\ wl.pc = "lock"
    /\ \/ \E d \in Ticks :
             LoopStep([Timed(wl, 0, d) EXCEPT !.acquired = TRUE, !.locked = TRUE,
                                              !.pc = "cont"])
       \/ LoopStep([wl EXCEPT !.pc = "pre"])

\* cont = keep_stressing(args);
FlockCont ==
    /\ wl.st = "flock" /\ wl.pc = "cont"
    /\ LoopStep([wl EXCEPT !.cont = keep_stressing,
                           !.pc = IF keep_stressing THEN "inc" ELSE "unlock"])

\* if (cont) inc_counter(args);
FlockInc ==
    /\ wl.st = "flock" /\ wl.pc = "inc"
    /\ LoopInc([wl EXCEPT !.pc = "unlock"])

\* t = stress_time_now(); if (flock(fd, LOCK_UN) == 0) { unlock_duration += ..;
\* unlock_count += 1.0; } if (!cont) break;
FlockUnlock ==
    /\ wl.st = "flock" /\ wl.pc = "unlock"
    /\ \/ \E d \in Ticks :
             LoopStep([Timed(wl, 1, d) EXCEPT !.acquired = FALSE, !.locked = FALSE,
                                              !.pc = IF wl.cont THEN "pre" ELSE "teardown"])
       \/ LoopStep([wl EXCEPT !.acquired = FALSE,
                              !.pc = IF wl.cont THEN "pre" ELSE "teardown"])

\* another worker of stress_flock locks or unlocks: the workers were forked
\* after the file was opened, so they all lock through the one open file
\* description, and a flock call of any of them replaces or removes its lock
FlockSibling ==
    /\ wl.st = "flock" /\ wl.pc \notin {"teardown", "done"}
    /\ LoopStep([wl EXCEPT !.locked = ~@])

\* if (!keep_stressing(args)) break;   (the head of every later section)
FlockPre ==
    /\ wl.st = "flock" /\ wl.pc = "pre"
    /\ LoopStep([wl EXCEPT !.pc = IF keep_stressing THEN "lock" ELSE "teardown"])

\* if (save_metrics) { rate = ..; stress_metrics_set(args, 0, ..); rate = ..;
\* stress_metrics_set(args, 1, ..); }
FlockTeardown ==
    /\ wl.st = "flock" /\ wl.pc = "teardown"
    /\ LoopStep([(IF wl.save_metrics
                  THEN stress_metrics_set(
                           stress_metrics_set(wl, 0,
                               PerCall(wl.duration[0], wl.count[0]),
                               "STRESS_DBL_NANOSECOND"),
                           1, PerCall(wl.duration[1], wl.count[1]),
                           "STRESS_DBL_NANOSECOND")
                  ELSE wl) EXCEPT !.pc = "done"])

\* if (!keep_stressing(args)) return EXIT_SUCCESS; mappings = mmap(..);
\* if (mappings == MAP_FAILED) return EXIT_NO_RESOURCE;
MlockPrecheck ==
    /\ wl.st = "mlock" /\ wl.pc = "precheck"
    /\ \/ LoopStep([wl EXCEPT !.pc = IF keep_stressing THEN "for" ELSE "done"])
       \/ keep_stressing /\ LoopStep([wl EXCEPT !.pc = "done"])

\* for (n = 0; n < max; n++) { if (!keep_stressing(args)) break; .. the
\* mapping of the next pages fails, or memory is low: break
MlockFor ==
    /\ wl.st = "mlock" /\ wl.pc = "for"
    /\ \/ LoopStep([wl EXCEPT !.pc = IF keep_stressing THEN "mlock" ELSE "unmap"])
       \/ LoopStep([wl EXCEPT !.pc = "unmap"])

\* ret = do_mlock(.., page_size, &mlock_duration, &mlock_count);
\* if (ret < 0) { if (errno == EAGAIN) continue; .. break; }
MlockLock ==
    /\ wl.st = "mlock" /\ wl.pc = "mlock"
    /\ \/ \E d \in Ticks :
             LoopStep([Timed(wl, 0, d) EXCEPT !.mlocked = TRUE, !.pc = "inc"])
       \/ LoopStep([wl EXCEPT !.mlocked = TRUE, !.pc = "inc"])
       \/ LoopStep([wl EXCEPT !.pc = "for"])
       \/ LoopStep([wl EXCEPT !.pc = "unmap"])

\* mappings[n] = .. | 1; inc_counter(args);
MlockInc ==
    /\ wl.st = "mlock" /\ wl.pc = "inc"
    /\ LoopInc([wl EXCEPT !.pc = "for"])

\* for (i = 0; i < n; i++) { if (keep_stressing(args)) { .. if (mlocked) {
\* ret = shim_munlock(..); if (ret == 0) { munlock_duration += ..;
\* munlock_count += 1.0; } } } munmap(..); }
MlockUnmap ==
    /\ wl.st = "mlock" /\ wl.pc = "unmap"
    /\ \/ /\ keep_stressing /\ wl.mlocked
          /\ \E d \in Ticks :
                LoopStep([Timed(wl, 1, d) EXCEPT !.mlocked = FALSE, !.pc = "while"])
       \/ LoopStep([wl EXCEPT !.mlocked = FALSE, !.pc = "while"])

\* } while (keep_stressing(args));
MlockWhile ==
    /\ wl.st = "mlock" /\ wl.pc = "while"
    /\ LoopStep([wl EXCEPT !.pc = IF keep_stressing THEN "for" ELSE "teardown"])

\* rate = (mlock_count > 0.0) ? mlock_duration / mlock_count : 0.0;
\* stress_metrics_set(args, 0, ..); rate = (munlock_count > 0.0) ? ..;
\* stress_metrics_set(args, 1, ..); return EXIT_SUCCESS;
MlockTeardown ==
    /\ wl.st = "mlock" /\ wl.pc = "teardown"
    /\ LoopStep([stress_metrics_set(
                     stress_metrics_set(wl, 0,
                         PerCall(wl.duration[0], wl.count[0]),
                         "STRESS_DBL_NANOSECOND"),
                     1, PerCall(wl.duration[1], wl.count[1]),
                     "STRESS_DBL_NANOSECOND") EXCEPT !.pc = "done"])

\* do { *buf32 = val++; ret = write(fd, buf, pipe_data_size);
\* if (ret <= 0) { EAGAIN, EINTR: continue; EPIPE: break; errno: break;
\* continue; } else bytes += (double)ret; inc_counter(args);
PipeWrite ==
    /\ wl.st = "pipe" /\ wl.pc = "write"
    /\ \/ LoopInc([wl EXCEPT !.count[0] = @ + 1, !.pc = "while"])
       \/ LoopStep([wl EXCEPT !.pc = "while"])
       \/ LoopStep([wl EXCEPT !.pc = "teardown"])

\* } while (keep_stressing(args));
PipeWhile ==
    /\ wl.st = "pipe" /\ wl.pc = "while"
    /\ LoopStep([wl EXCEPT !.pc = IF keep_stressing THEN "write" ELSE "teardown"])

\* duration = stress_time_now() - t;
\* rate = (duration > 0.0) ? (bytes / duration) / (double)MB : 0.0;
\* stress_metrics_set(args, 0, "MB per sec pipe write rate", rate);
PipeTeardown ==
    /\ wl.st = "pipe" /\ wl.pc = "teardown"
    /\ \E d \in Ticks :
          LoopStep([stress_metrics_set([wl EXCEPT !.duration[0] = d], 0,
                                       PerSec(wl.count[0], d), "1/MB")
                    EXCEPT !.pc = "done"])

\* for (i = 0; keep_stressing(args) && (i < dir_count); i++) {
EfivarFor ==
    /\ wl.st = "efivar" /\ wl.pc = "for"
    /\ \/ LoopStep([wl EXCEPT !.pc = IF keep_stressing THEN "read" ELSE "while"])
       \/ LoopStep([wl EXCEPT !.pc = "while"])

\* ret = get_variable_sysfs_efi_efivars(.., duration, count); which does
\* (*duration) += stress_time_now() - t; (*count) += 1.0;
\* if (ret < 0) { efi_ignore[i] = true; continue; }
EfivarRead ==
    /\ wl.st = "efivar" /\ wl.pc = "read"
    /\ \/ \E d \in Ticks : LoopStep([Timed(wl, 0, d) EXCEPT !.pc = "inc"])
       \/ LoopStep([wl EXCEPT !.pc = "for"])

\* inc_counter(args);
EfivarInc ==
    /\ wl.st = "efivar" /\ wl.pc = "inc"
    /\ LoopInc([wl EXCEPT !.pc = "for"])

\* do { efi_vars_get(..); } while (keep_stressing(args));
EfivarWhile ==
    /\ wl.st = "efivar" /\ wl.pc = "while"
    /\ LoopStep([wl EXCEPT !.pc = IF keep_stressing THEN "for" ELSE "teardown"])

\* rate = (duration > 0.0) ? count / duration : 0.0;
\* stress_metrics_set(args, 0, "efi raw data reads per sec", rate);
EfivarTeardown ==
    /\ wl.st = "efivar" /\ wl.pc = "teardown"
    /\ LoopStep([stress_metrics_set(wl, 0, PerSec(wl.count[0], wl.duration[0]), "1")
                 EXCEPT !.pc = "done"])

\* the loop is left for the label unreg, past the reaping of the child
UffdAfterLoop_Unreg == "unreg"

\* where a break and the end of the fault-handling loop lead: to
\* stress_kill_and_wait(args, pid, SIGALRM, false);
UffdAfterLoop == "kaw"

\* the loop is left for the reason r
UffdLeave(w, r) == [w EXCEPT !.why = r, !.pc = UffdAfterLoop]

\* do { .. if (!keep_stressing_flag()) break; t = stress_time_now();
UffdTop ==
    /\ wl.st = "userfaultfd" /\ wl.pc = "top"
    /\ LoopStep(IF keep THEN [wl EXCEPT !.pc = "read"] ELSE UffdLeave(wl, "flag"))

\* poll and read: continue when nothing was read, break when the fault
\* cannot be handled; else duration += stress_time_now() - t;
\* inc_counter(args); counter = (double)get_counter(args);
\* rate = (counter > 0.0) ? duration / counter : 0.0;
\* stress_metrics_set(args, 0, "nanosecs per page fault", ..);
UffdRead ==
    /\ wl.st = "userfaultfd" /\ wl.pc = "read"
    /\ \/ LoopStep([wl EXCEPT !.pc = "while"])
       \/ ~keep /\ LoopStep(UffdLeave(wl, "poll"))
       \/ ~keep /\ LoopStep(UffdLeave(wl, "read"))
       \/ LoopStep(UffdLeave(wl, "handle_page_fault"))
       \/ \E d \in Ticks :
             LoopInc([stress_metrics_set(
                          [wl EXCEPT !.duration[0] = @ + d,
                                     !.count[0] = inc_counter(counter)],
                          0, PerCall(wl.duration[0] + d, inc_counter(counter)),
                          "STRESS_DBL_NANOSECOND")
                      EXCEPT !.pc = "while"])

\* } while (keep_stressing(args));
UffdWhile ==
    /\ wl.st = "userfaultfd" /\ wl.pc = "while"
    /\ LoopStep(IF keep_stressing THEN [wl EXCEPT !.pc = "top"]
                ELSE UffdLeave(wl, "while"))

\* stress_kill_and_wait(args, pid, SIGALRM, false);
UffdKillAndWait ==
    /\ wl.st = "userfaultfd" /\ wl.pc = "kaw"
    /\ LoopStep([wl EXCEPT !.kaw = Append(@, [pid |-> Child(1), signum |-> "SIGALRM",
                                              set_force_killed_counter |-> FALSE]),
                           !.pc = "unreg"])

\* unreg: ioctl(fd, UFFDIO_UNREGISTER, &reg), unmap_data: munmap(data, sz);
\* .. return rc;
UffdUnregister ==
    /\ wl.st = "userfaultfd" /\ wl.pc = "unreg"
    /\ LoopStep([wl EXCEPT !.pc = "done"])

NextLoop ==
    \/ FlockLock
    \/ FlockCont
    \/ FlockInc
    \/ FlockUnlock
    \/ FlockSibling
    \/ FlockPre
    \/ FlockTeardown
    \/ MlockPrecheck
    \/ MlockFor
    \/ MlockLock
    \/ MlockInc
    \/ MlockUnmap
    \/ MlockWhile
    \/ MlockTeardown
    \/ PipeWrite
    \/ PipeWhile
    \/ PipeTeardown
    \/ EfivarFor
    \/ EfivarRead
    \/ EfivarInc
    \/ EfivarWhile
    \/ EfivarTeardown
    \/ UffdTop
    \/ UffdRead
    \/ UffdWhile
    \/ UffdKillAndWait
    \/ UffdUnregister
    \/ StopRun

SpecLoop == InitLoop /\ [][NextLoop]_vars

(***************************************************************************)
(* stress_mlock: stress_oomable_child runs stress_mlock_child in a worker, *)
(* waits for it, and starts it again in a new worker when the worker was   *)
(* killed and the run should continue.  The worker's body is the loop of   *)
(* stress_mlock_child above; its locals start afresh in every worker, the  *)
(* counter and the metric slots are shared with the wrapper.               *)
(***************************************************************************)
MaxOomKills == 2

\* the wrapper never starts a new worker
OomRespawn_Never(abnormal, cont) == FALSE

\* respawn when the worker was abnormally terminated and the run should continue
OomRespawn(abnormal, cont) == abnormal /\ cont

\* the locals of stress_mlock_child at its entry, in a new worker
MlockEntry(m, n) ==
    [WlIdle EXCEPT !.st = "mlock", !.pc = "precheck", !.save_metrics = TRUE,
                   !.metrics = m, !.writes = n]

InitOom ==
    /\ BaseIdle
    /\ kp = KpIdle
    /\ wl = WlIdle
    /\ oom = [OomIdle EXCEPT !.pc = "spawn"]
    /\ AllOff

\* the wrapper forks a worker that calls stress_mlock_child(args, context)
OomSpawn ==
    /\ oom.pc = "spawn"
    /\ oom' = [oom EXCEPT !.pc = "wait", !.child = "running", !.spawned = @ + 1,
                          !.start = Append(@, counter)]
    /\ wl' = MlockEntry(wl.metrics, wl.writes)
    /\ UNCHANGED <<base, kp, nvars>>

\* the worker is killed mid-run, as by the kernel's OOM killer
OomKill ==
    /\ oom.pc = "wait" /\ oom.child = "running"
    /\ wl.pc \notin {"done", "killed"}
    /\ oom.spawned <= MaxOomKills
    /\ wl' = [wl EXCEPT !.pc = "killed"]
    /\ oom' = [oom EXCEPT !.child = "killed"]
    /\ UNCHANGED <<base, kp, nvars>>

\* the wrapper's wait returns: the worker has returned from
\* stress_mlock_child, or it was killed
OomWait ==
    /\ oom.pc = "wait"
    /\ wl.pc \in {"done", "killed"}
    /\ LET abnormal == wl.pc = "killed"
       IN  oom' = [oom EXCEPT
                     !.child = "none",
                     !.killed = IF abnormal /\ keep_stressing THEN @ + 1 ELSE @,
                     !.death = IF abnormal THEN Append(@, counter) ELSE @,
                     !.pc = IF OomRespawn(abnormal, keep_stressing)
                            THEN "spawn" ELSE "done",
                     !.rc = IF OomRespawn(abnormal, keep_stressing) THEN @
                            ELSE IF abnormal THEN "killed" ELSE "exited"]
    /\ UNCHANGED <<base, kp, wl, nvars>>

NextOom ==
    \/ OomSpawn
    \/ OomKill
    \/ OomWait
    \/ MlockPrecheck
    \/ MlockFor
    \/ MlockLock
    \/ MlockInc
    \/ MlockUnmap
    \/ MlockWhile
    \/ MlockTeardown
    \/ StopRun

SpecOom == InitOom /\ [][NextOom]_vars

(***************************************************************************)
(* stress_pipe after its fork: the parent writes numbered messages, the    *)
(* child reads and verifies them, and the parent tears down.  The first    *)
(* word of a message is a uint32_t sequence number; its range is cut down  *)
(* to 0..MaxVal and it wraps around as the uint32_t does.                  *)
(***************************************************************************)
MaxVal == 3

\* messages the pipe holds before a write blocks
PipeCap == 2

\* what stress_pipe leaves alone
pquiet == <<op, pids, set_force_killed_counter, proc, pc, i, pid, count, ret,
            err, kflag, budget, sent, waited, reaps, probed, killpid, forced, warned,
            entered, returned, order, alive0, ncall, snap, stressor, spc, fi, cpid,
            fbudget, fhist, flog, rc, retval, wpc, reg, alarmed, kp, wl, oom,
            ml, cl, vs, mf, ev>>

\* val++ on a uint32_t
NextVal(v) == (v + 1) % (MaxVal + 1)

\* the parent waits for the child before it closes its end
PipeTeardownCalls_WaitFirst == <<"waitpid", "close", "kill">>

\* (void)close(pipefds[1]); (void)kill(pid, SIGPIPE);
\* (void)shim_waitpid(pid, &status, 0);
PipeTeardownCalls == <<"close", "kill", "waitpid">>

\* the writer numbers a message only when it has been written
PipeStamp_OnSuccess(v, written) == IF written THEN NextVal(v) ELSE v

\* *buf32 = val++; before the write, whatever its result
PipeStamp(v, written) == NextVal(v)

PipeStep(p) == pp' = p /\ UNCHANGED <<keep, counter, pquiet>>

InitPipe ==
    /\ BaseIdle
    /\ kp = KpIdle
    /\ wl = WlIdle
    /\ oom = OomIdle
    /\ ml = Off /\ cl = Off /\ vs = Off /\ mf = Off /\ ev = Off
    /\ \E v \in {0, MaxVal}, verify \in BOOLEAN :
          pp = [ppc |-> "write", cpc |-> "loop", q |-> <<>>, wopen |-> TRUE,
                ropen |-> TRUE, wval |-> v, rval |-> v, verify |-> verify,
                cflag |-> TRUE, mismatch |-> FALSE, retried |-> FALSE,
                td |-> 1, plog |-> <<>>]

\* parent: *buf32 = val++; ret = write(fd, buf, pipe_data_size); EAGAIN or
\* EINTR: continue; EPIPE: break; else bytes += ret; inc_counter(args);
PpWrite ==
    /\ pp.ppc = "write"
    /\ \/ /\ pp.ropen /\ Len(pp.q) < PipeCap
          /\ pp' = [pp EXCEPT !.q = Append(@, pp.wval),
                              !.wval = PipeStamp(@, TRUE), !.ppc = "while"]
          /\ counter' = inc_counter(counter)
          /\ UNCHANGED <<keep, pquiet>>
       \/ /\ pp.ropen
          /\ PipeStep([pp EXCEPT !.wval = PipeStamp(@, FALSE), !.retried = TRUE,
                                 !.ppc = "while"])
       \/ /\ ~pp.ropen
          /\ PipeStep([pp EXCEPT !.wval = PipeStamp(@, FALSE), !.ppc = "teardown"])

\* parent: } while (keep_stressing(args));
PpWhile ==
    /\ pp.ppc = "while"
    /\ PipeStep([pp EXCEPT !.ppc = IF keep_stressing THEN "write" ELSE "teardown"])

\* parent: the next call of the teardown; close drops the last write end,
\* SIGPIPE runs the handler that clears the child's flag, waitpid blocks
\* until the child has exited
PpTeardown ==
    /\ pp.ppc = "teardown"
    /\ LET call == PipeTeardownCalls[pp.td]
           p == [pp EXCEPT !.plog = Append(@, call),
                           !.td = @ + 1,
                           !.ppc = IF pp.td = Len(PipeTeardownCalls) THEN "done" ELSE @]
       IN  CASE call = "close" -> PipeStep([p EXCEPT !.wopen = FALSE])
             [] call = "kill" -> PipeStep([p EXCEPT !.cflag = FALSE])
             [] call = "waitpid" ->
                    /\ pp.cpc = "zombie"
                    /\ PipeStep([p EXCEPT !.cpc = "reaped"])

\* child: while (keep_stressing_flag()) {
PcLoop ==
    /\ pp.cpc = "loop"
    /\ PipeStep([pp EXCEPT !.cpc = IF pp.cflag THEN "read" ELSE "exit"])

\* child: n = read(fd, buf, pipe_data_size); n == 0: break; EAGAIN, EINTR:
\* continue; other errors: break; if (verify) { if (*buf32 != val)
\* pr_fail(..); val++; }
PcRead ==
    /\ pp.cpc = "read"
    /\ \/ /\ pp.q # <<>>
          /\ PipeStep([pp EXCEPT
                         !.q = Tail(@),
                         !.mismatch = @ \/ (pp.verify /\ Head(pp.q) # pp.rval),
                         !.rval = IF pp.verify THEN NextVal(@) ELSE @,
                         !.cpc = "loop"])
       \/ /\ pp.q = <<>> /\ ~pp.wopen
          /\ PipeStep([pp EXCEPT !.cpc = "exit"])
       \/ /\ ~pp.cflag
          /\ PipeStep([pp EXCEPT !.cpc = "loop"])
       \/ PipeStep([pp EXCEPT !.cpc = "exit"])

\* child: (void)close(pipefds[0]); .. _exit(EXIT_SUCCESS);
PcExit ==
    /\ pp.cpc = "exit"
    /\ PipeStep([pp EXCEPT !.ropen = FALSE, !.cpc = "zombie"])

\* the run is stopped in the child: its copy of the flag is cleared
PcStop ==
    /\ pp.cpc \in {"loop", "read"} /\ pp.cflag
    /\ PipeStep([pp EXCEPT !.cflag = FALSE])

NextPipe ==
    \/ PpWrite
    \/ PpWhile
    \/ PpTeardown
    \/ PcLoop
    \/ PcRead
    \/ PcExit
    \/ PcStop
    \/ StopRun

SpecPipe == InitPipe /\ [][NextPipe]_vars

\* the processes are scheduled and the kernel completes their calls
SpecPipeLive ==
    /\ InitPipe /\ [][NextPipe]_vars
    /\ WF_vars(PpTeardown) /\ WF_vars(PcLoop) /\ WF_vars(PcRead) /\ WF_vars(PcExit)

(***************************************************************************)
(* stress_mlock_child, the table of mappings: in every pass of the outer   *)
(* loop regions of three pages are mapped and locked, the low bit of a     *)
(* table entry marks a locked region, and the regions are unmapped again.  *)
(* The passes over single pages that follow (lines 365-379) keep no tag    *)
(* and are left out.                                                       *)
(***************************************************************************)
MaxMappings == 2

MaxRegions == 3

page_size == 4096

MAP_FAILED == -1

mquiet == <<op, pids, set_force_killed_counter, proc, pc, i, pid, count, ret, err,
            kflag, budget, sent, waited, reaps, probed, killpid, forced, warned,
            entered, returned, order, alive0, ncall, snap, stressor, spc, fi, cpid,
            fbudget, fhist, flog, rc, retval, wpc, reg, alarmed, kp, wl, oom, pp, cl,
            vs, mf, ev>>

\* the address mmap can return for the k-th free place of the address space
RegionAt(k) == k * 3 * page_size

Regions == {RegionAt(k) : k \in 1..MaxRegions}

\* munmap accepts any address
Aligned_Any(a) == TRUE

\* munmap fails with EINVAL unless the address is a multiple of the page size
Aligned(a) == a % page_size = 0

\* mappings[n] = (uint8_t *)((intptr_t)mappings[n] | 1);
Tagged(a) == IF a % 2 = 0 THEN a + 1 ELSE a

\* intptr_t mlocked = addr & 1;
TagOf(a) == a % 2

\* the tag is cleared whether the run continues or not
Untag_Always(a, cont) == a - TagOf(a)

\* if (keep_stressing(args)) { addr ^= mlocked; ..
Untag(a, cont) == IF cont THEN a - TagOf(a) ELSE a

\* a break leaves n at the region it has just counted
AfterBreak_Counted(n, mapped) == IF mapped THEN n + 1 ELSE n

\* break: the for loop is left with n unchanged
AfterBreak(n, mapped) == n

MlStep(m) == ml' = m /\ UNCHANGED <<keep, counter, mquiet>>

\* the for loop is left by a break, region n mapped or not
MlBreak(m, mapped) == [m EXCEPT !.n = AfterBreak(@, mapped), !.i = 0, !.pc = "unmap"]

InitMlockMap ==
    /\ BaseIdle
    /\ kp = KpIdle
    /\ wl = WlIdle
    /\ oom = OomIdle
    /\ pp = Off /\ cl = Off /\ vs = Off /\ mf = Off /\ ev = Off
    /\ ml = [pc |-> "for", n |-> 0, i |-> 0,
             mappings |-> [k \in 0..(MaxMappings - 1) |-> 0],
             as |-> {}, iter |-> {}, odd |-> FALSE, tagged |-> FALSE]

\* for (n = 0; n < max; n++) { if (!keep_stressing(args)) break; low memory:
\* break; mappings[n] = mmap(NULL, page_size * 3, ..);
\* if (mappings[n] == MAP_FAILED) break;
MlMap ==
    /\ ml.pc = "for"
    /\ IF ml.n >= MaxMappings
       THEN MlStep([ml EXCEPT !.i = 0, !.pc = "unmap"])
       ELSE \/ ~keep_stressing /\ MlStep(MlBreak(ml, FALSE))
            \/ keep_stressing /\ MlStep(MlBreak(ml, FALSE))
            \/ /\ keep_stressing
               /\ MlStep(MlBreak([ml EXCEPT !.mappings[ml.n] = MAP_FAILED], FALSE))
            \/ /\ keep_stressing
               /\ \E a \in Regions \ ml.as :
                     MlStep([ml EXCEPT !.mappings[ml.n] = a, !.as = @ \cup {a},
                                       !.iter = @ \cup {a}, !.pc = "mapped"])

\* if (!keep_stressing(args)) break;   (lines 297, 305 and 313)
MlCheck ==
    /\ ml.pc = "mapped"
    /\ MlStep(IF keep_stressing THEN [ml EXCEPT !.pc = "mlock"]
              ELSE MlBreak(ml, TRUE))

\* ret = do_mlock(..); if (ret < 0) { if (errno == EAGAIN) continue;
\* .. break; } else { mappings[n] = .. | 1; inc_counter(args); }
MlLock ==
    /\ ml.pc = "mlock"
    /\ \/ /\ ml' = [ml EXCEPT !.mappings[ml.n] = Tagged(@), !.tagged = TRUE,
                              !.n = @ + 1, !.pc = "for"]
          /\ counter' = inc_counter(counter)
          /\ UNCHANGED <<keep, mquiet>>
       \/ MlStep([ml EXCEPT !.n = @ + 1, !.pc = "for"])
       \/ MlStep(MlBreak(ml, TRUE))

\* for (i = 0; i < n; i++) { addr = mappings[i]; mlocked = addr & 1;
\* if (keep_stressing(args)) { addr ^= mlocked; .. }
\* (void)munmap((void *)addr, page_size * 3); }
MlUnmap ==
    /\ ml.pc = "unmap"
    /\ IF ml.i < ml.n
       THEN LET addr == Untag(ml.mappings[ml.i], keep_stressing)
            IN  MlStep([ml EXCEPT !.as = IF Aligned(addr) THEN @ \ {addr} ELSE @,
                                  !.odd = @ \/ TagOf(addr) = 1,
                                  !.i = @ + 1])
       ELSE MlStep([ml EXCEPT !.pc = "while"])

\* } while (keep_stressing(args));
MlWhile ==
    /\ ml.pc = "while"
    /\ MlStep(IF keep_stressing
              THEN [ml EXCEPT !.n = 0, !.iter = {}, !.pc = "for"]
              ELSE [ml EXCEPT !.pc = "done"])

NextMlockMap ==
    \/ MlMap
    \/ MlCheck
    \/ MlLock
    \/ MlUnmap
    \/ MlWhile
    \/ StopRun

SpecMlockMap == InitMlockMap /\ [][NextMlockMap]_vars

(***************************************************************************)
(* The client child of stress_udp and of stress_rawpkt, from its first     *)
(* statement to its end, and the parent that runs the server and then      *)
(* kills and reaps the client.                                             *)
(***************************************************************************)
MaxSends == 2

cquiet == <<op, pids, set_force_killed_counter, proc, pc, i, pid, count, ret, err,
            kflag, budget, sent, waited, reaps, probed, killpid, forced, warned,
            entered, returned, order, alive0, ncall, snap, stressor, spc, fi, cpid,
            fbudget, fhist, flog, rc, retval, wpc, reg, counter, alarmed, kp, wl, oom,
            pp, ml, vs, mf, ev>>

ClientStressors == {"udp", "rawpkt"}

\* the steps of the client's set-up that can fail
ClientSetup(st) ==
    CASE st = "udp" -> <<"socket", "stress_set_sockaddr_if", "setsockopt">>
      [] st = "rawpkt" -> <<"socket">>

\* a failed set-up ends the client at once
ClientFail_Exit == "exit"

\* goto child_die; .. return rc; (void)kill(getppid(), SIGALRM); in
\* stress_udp, and goto err; (void)kill(ppid, SIGALRM); in
\* stress_rawpkt_client
ClientFail == "inform"

ClStep(c) == cl' = c /\ UNCHANGED <<keep, cquiet>>

InitClient ==
    /\ BaseIdle
    /\ kp = KpIdle
    /\ wl = WlIdle
    /\ oom = OomIdle
    /\ pp = Off /\ ml = Off /\ vs = Off /\ mf = Off /\ ev = Off
    /\ \E st \in ClientStressors :
          cl = [st |-> st, cpc |-> "setup", step |-> 1, rc |-> "EXIT_FAILURE",
                sends |-> 0, calls |-> <<>>, ppc |-> "server", alarms |-> 0,
                killed |-> FALSE]

\* the next step of the set-up succeeds or fails
ClSetup ==
    /\ cl.cpc = "setup"
    /\ \/ ClStep([cl EXCEPT !.step = @ + 1,
                            !.cpc = IF cl.step = Len(ClientSetup(cl.st))
                                    THEN "send" ELSE @])
       \/ ClStep([cl EXCEPT !.cpc = ClientFail])

\* do { .. sendto(..) .. } while (keep_stressing(args)); rc = EXIT_SUCCESS;
ClSend ==
    /\ cl.cpc = "send"
    /\ \/ /\ cl.sends < MaxSends
          /\ ClStep([cl EXCEPT !.sends = @ + 1])
       \/ /\ cl.sends > 0 /\ ~keep_stressing
          /\ ClStep([cl EXCEPT !.rc = "EXIT_SUCCESS", !.cpc = "inform"])

\* (void)kill(ppid, SIGALRM);
ClInform ==
    /\ cl.cpc = "inform"
    /\ ClStep([cl EXCEPT !.calls = Append(@, "kill(ppid, SIGALRM)"),
                         !.alarms = @ + 1, !.cpc = "exit"])

\* _exit(rc);
ClExit ==
    /\ cl.cpc = "exit"
    /\ ClStep([cl EXCEPT !.calls = Append(@, "_exit"), !.cpc = "exited"])

\* parent: the server returns, woken by the client's SIGALRM, stopped, or
\* on an error of its own
PsServer ==
    /\ cl.ppc = "server"
    /\ ClStep([cl EXCEPT !.ppc = "kill"])

\* parent: (void)kill(pid, SIGKILL);
PsKill ==
    /\ cl.ppc = "kill"
    /\ ClStep([cl EXCEPT !.ppc = "wait",
                         !.killed = cl.cpc # "exited",
                         !.cpc = IF cl.cpc = "exited" THEN @ ELSE "killed"])

\* parent: (void)shim_waitpid(pid, &status, 0);
PsWait ==
    /\ cl.ppc = "wait"
    /\ ClStep([cl EXCEPT !.ppc = "done"])

NextClient ==
    \/ ClSetup
    \/ ClSend
    \/ ClInform
    \/ ClExit
    \/ PsServer
    \/ PsKill
    \/ PsWait
    \/ StopRun

SpecClient == InitClient /\ [][NextClient]_vars

(***************************************************************************)
(* stress_vecshuf: one vector type of the stress_vec_data_t, its shuffle   *)
(* masks, the shuffle loop of STRESS_VEC_SHUFFLE and the check of the      *)
(* shuffled vector against the original.                                   *)
(***************************************************************************)
\* passes of the shuffle loop modelled for one call (LOOPS_PER_CALL)
MaxLoops == 2

vquiet == <<op, pids, set_force_killed_counter, proc, pc, i, pid, count, ret, err,
            kflag, budget, sent, waited, reaps, probed, killpid, forced, warned,
            entered, returned, order, alive0, ncall, snap, stressor, spc, fi, cpid,
            fbudget, fhist, flog, rc, retval, wpc, reg, alarmed, kp, wl, oom, pp, ml,
            cl, mf, ev>>

\* the element counts of the vector types u8x64 .. u128x4
VecElements == {64, 32, 16, 8, 4}

\* the values of stress_mwc8()
Mwc8 == 0 .. 255

\* x & (elements - 1), elements a power of two, x in two's complement
AndMask(x, elements) == x % elements

\* s = (stress_mwc8() & ((elements >> 1) - 1)) + 1;
MaskShift(r, elements) == AndMask(r, elements \div 2) + 1

\* mask1.i[i] = (i + s) & (elements - 1);
Mask1(j, s, elements) == AndMask(j + s, elements)

\* the second mask shifts the same way as the first
Mask2_Forward(j, s, elements) == AndMask(j + s, elements)

\* mask2.i[i] = (i - s) & (elements - 1);
Mask2(j, s, elements) == AndMask(j - s, elements)

\* __builtin_shuffle(v, mask): element j of the result is element
\* mask[j] mod N of v
builtin_shuffle(v, mask) ==
    [j \in DOMAIN v |-> v[AndMask(mask[j], Cardinality(DOMAIN v))]]

\* VEC_SET_DATA: elements from the pseudo random generator, here three
\* sequences of it, with all elements different, with repeats, all equal
VecSeeds == {<<1, 0>>, <<3, 1>>, <<0, 7>>}
VecData(elements, seed) ==
    [j \in 0 .. elements - 1 |-> (seed[1] * j + seed[2]) % 256]

\* VEC_CHECK: fail when some element of s differs from that of o
VecCheck(s, o) == \E j \in DOMAIN s : s[j] # o[j]

VsStep(v) == vs' = v /\ UNCHANGED <<keep, counter, vquiet>>

InitVecshuf ==
    /\ BaseIdle
    /\ kp = KpIdle
    /\ wl = WlIdle
    /\ oom = OomIdle
    /\ pp = Off /\ ml = Off /\ cl = Off /\ mf = Off /\ ev = Off
    /\ \E n \in VecElements, seed \in VecSeeds :
          vs = [pc |-> "set_mask", elements |-> n,
                s |-> VecData(n, seed), o |-> VecData(n, seed),
                tmp |-> VecData(n, seed),
                mask1 |-> [j \in 0 .. n - 1 |-> 0],
                mask2 |-> [j \in 0 .. n - 1 |-> 0],
                shift |-> 0, i |-> 0, calls |-> 0, fail |-> FALSE]

\* stress_vecshuf_set_mask(data);
VsSetMask ==
    /\ vs.pc = "set_mask"
    /\ \E r \in Mwc8 :
          LET sh == MaskShift(r, vs.elements) IN
          VsStep([vs EXCEPT
              !.shift = sh,
              !.mask1 = [j \in 0 .. vs.elements - 1 |-> Mask1(j, sh, vs.elements)],
              !.mask2 = [j \in 0 .. vs.elements - 1 |-> Mask2(j, sh, vs.elements)],
              !.i = 0,
              !.pc = "shuffle1"])

\* tmp.v = __builtin_shuffle(s->v, mask1->v);
VsShuffle1 ==
    /\ vs.pc = "shuffle1"
    /\ VsStep([vs EXCEPT !.tmp = builtin_shuffle(vs.s, vs.mask1),
                         !.pc = "shuffle2"])

\* s->v = __builtin_shuffle(tmp.v, mask2->v); and the end of the pass;
\* inc_counter(args) after the last pass
VsShuffle2 ==
    /\ vs.pc = "shuffle2"
    /\ IF vs.i + 1 < MaxLoops
       THEN VsStep([vs EXCEPT !.s = builtin_shuffle(vs.tmp, vs.mask2),
                              !.i = @ + 1, !.pc = "shuffle1"])
       ELSE /\ vs' = [vs EXCEPT !.s = builtin_shuffle(vs.tmp, vs.mask2),
                                !.i = @ + 1, !.calls = @ + 1,
                                !.pc = "check"]
            /\ counter' = inc_counter(counter)
            /\ UNCHANGED <<keep, vquiet>>

\* stress_vecshuf_check_data(args, data);
VsCheck ==
    /\ vs.pc = "check"
    /\ VsStep([vs EXCEPT !.fail = @ \/ VecCheck(vs.s, vs.o), !.pc = "while"])

\* } while (keep_stressing(args));
VsWhile ==
    /\ vs.pc = "while"
    /\ VsStep([vs EXCEPT !.pc = IF keep_stressing THEN "set_mask" ELSE "done"])

NextVecshuf ==
    \/ VsSetMask
    \/ VsShuffle1
    \/ VsShuffle2
    \/ VsCheck
    \/ VsWhile
    \/ StopRun

SpecVecshuf == InitVecshuf /\ [][NextVecshuf]_vars

(***************************************************************************)
(* stress_mmapfixed_is_mapped and stress_mmapfixed_is_mapped_slow.         *)
(* Addresses are byte offsets from the addr argument; the region asked     *)
(* about is [0, len).                                                      *)
(***************************************************************************)
\* most pages of a region asked about
MaxLenPages == 2

PAGE_CHUNKS == 1024

fquiet == <<op, pids, set_force_killed_counter, keep, proc, pc, i, pid, count, ret,
            err, kflag, budget, sent, waited, reaps, probed, killpid, forced, warned,
            entered, returned, order, alive0, ncall, snap, stressor, spc, fi, cpid,
            fbudget, fhist, flog, rc, retval, wpc, reg, counter, alarmed, kp, wl, oom,
            pp, ml, cl, vs, ev>>

\* the walk counts the bytes it has covered
Covered_Bytes(n_pages, sz) == sz

\* n -= n_pages;
Covered(n_pages, sz) == n_pages

MfStep(m) == mf' = m /\ UNCHANGED fquiet

\* return of stress_mmapfixed_is_mapped
MfReturn(m, r) == MfStep([m EXCEPT !.pc = "ret", !.result = r])

\* size_t sz = page_size * (1 + stress_mwc8modn(7)); in the caller
InitMmapfixed ==
    /\ BaseIdle
    /\ kp = KpIdle
    /\ wl = WlIdle
    /\ oom = OomIdle
    /\ pp = Off /\ ml = Off /\ cl = Off /\ vs = Off /\ ev = Off
    /\ \E k \in 1 .. MaxLenPages :
          mf = [pc |-> "entry", len |-> k * page_size, n |-> 0, n_pages |-> 0,
                addr |-> 0, sz |-> 0, found |-> FALSE, result |-> "none",
                slow |-> FALSE, lo |-> 0, hi |-> 0, calls |-> 0]

\* stress_mmapfixed_is_mapped up to its call of the slow walk, and the
\* first statements of the walk
MfEntry ==
    /\ mf.pc = "entry"
    /\ LET walk == [mf EXCEPT
                       !.slow = TRUE,
                       !.n = mf.len,
                       !.n_pages = IF mf.len \div page_size > PAGE_CHUNKS
                                   THEN PAGE_CHUNKS
                                   ELSE mf.len \div page_size,
                       !.pc = "while"]
       IN  IF mf.len > page_size * PAGE_CHUNKS
           THEN MfStep(walk)
           ELSE \E r \in {"0", "ENOSYS", "-1"} :
                   IF r = "0" THEN MfReturn(mf, "true") ELSE MfStep(walk)

\* while (n > 0) { sz = n_pages * page_size; n -= n_pages;
MfWhile ==
    /\ mf.pc = "while"
    /\ IF mf.n > 0
       THEN MfStep([mf EXCEPT !.sz = mf.n_pages * page_size,
                              !.n = @ - Covered(mf.n_pages, mf.n_pages * page_size),
                              !.pc = "mincore"])
       ELSE MfReturn(mf, "false")

\* shim_memset(vec, 0, PAGE_CHUNKS); ret = shim_mincore(addr, sz, vec);
\* the call reports some page of [addr, addr + sz) resident or none
MfMincore ==
    /\ mf.pc = "mincore"
    /\ \E r \in {"ENOSYS", "other"}, res \in BOOLEAN :
          LET m == [mf EXCEPT !.lo = mf.addr, !.hi = mf.addr + mf.sz,
                              !.calls = @ + 1, !.found = res]
          IN  IF r = "ENOSYS"
              THEN /\ ~res
                   /\ MfReturn(m, "false")
              ELSE MfStep([m EXCEPT !.pc = "scan"])

\* for (j = 0; j < n_pages; j++) if (vec[j]) return true;
\* addr = (void *)(((uintptr_t)addr) + sz); }
MfScan ==
    /\ mf.pc = "scan"
    /\ IF mf.found
       THEN MfReturn(mf, "true")
       ELSE MfStep([mf EXCEPT !.addr = @ + mf.sz, !.pc = "while"])

NextMmapfixed ==
    \/ MfEntry
    \/ MfWhile
    \/ MfMincore
    \/ MfScan

SpecMmapfixed == InitMmapfixed /\ [][NextMmapfixed]_vars

(***************************************************************************)
(* The efivar stressor's pass over the directory entries: efi_vars_get,    *)
(* get_variable_sysfs_efi_vars and get_variable_sysfs_efi_efivars, and the *)
(* table efi_ignore.                                                       *)
(***************************************************************************)
\* most directory entries
MaxDirCount == 6

equiet == <<op, pids, set_force_killed_counter, proc, pc, i, pid, count, ret, err,
            kflag, budget, sent, waited, reaps, probed, killpid, forced, warned,
            entered, returned, order, alive0, ncall, snap, stressor, spc, fi, cpid,
            fbudget, fhist, flog, rc, retval, wpc, reg, alarmed, kp, wl, oom, pp, ml,
            cl, vs, mf>>

efi_sysfs_names == <<"attributes", "data", "guid", "size">>

EfiModes == {"STRESS_EFI_VARS", "STRESS_EFI_EFIVARS"}

\* the slots of efi_ignore that are in the mapping: those of the entries,
\* and the rest of the page
IgnoreSlots(dir_count) ==
    0 .. (IF dir_count > Len(efi_sysfs_names) THEN dir_count - 1
          ELSE Len(efi_sysfs_names))

\* the entry being processed is the one marked
IgnoreIndex_Entry(entry, local) == entry

\* efi_ignore[i] = true; in get_variable_sysfs_efi_vars, i its own loop
\* index
IgnoreIndex(entry, local) == local

\* for (i = 0; i < SIZEOF_ARRAY(efi_sysfs_names); i++) { .. }
AfterSysfsLoop == Len(efi_sysfs_names)

EvStep(v) == ev' = v /\ UNCHANGED <<keep, counter, equiet>>

Mark(ign, j) == [ign EXCEPT ![j] = TRUE]

\* scandir(.., alphasort): "." and ".." come first
InitEfivar ==
    /\ BaseIdle
    /\ kp = KpIdle
    /\ wl = WlIdle
    /\ oom = OomIdle
    /\ pp = Off /\ ml = Off /\ cl = Off /\ vs = Off /\ mf = Off
    /\ \E dc \in 1 .. MaxDirCount, mode \in EfiModes :
          ev = [pc |-> "for", i |-> 0, dir_count |-> dc, mode |-> mode,
                dots |-> IF dc < 2 THEN dc ELSE 2,
                ignore |-> [j \in IgnoreSlots(dc) |-> FALSE],
                entry |-> -1, why |-> "none"]

\* for (i = 0; keep_stressing(args) && (i < dir_count); i++) {
\*   if (efi_ignore[i]) continue;
\*   if (efi_var_ignore(d_name)) { efi_ignore[i] = true; continue; }
EvFor ==
    /\ ev.pc = "for"
    /\ IF ~(keep_stressing /\ ev.i < ev.dir_count)
       THEN EvStep([ev EXCEPT !.pc = "while"])
       ELSE IF ev.ignore[ev.i]
       THEN EvStep([ev EXCEPT !.i = @ + 1])
       ELSE IF ev.i < ev.dots
       THEN EvStep([ev EXCEPT !.ignore = Mark(@, ev.i), !.entry = ev.i,
                              !.why = "name", !.i = @ + 1])
       ELSE EvStep([ev EXCEPT !.pc = "get"])

\* ret = get_variable_sysfs_efi_vars(..); if (ret < 0) { efi_ignore[i] =
\* true; continue; } inc_counter(args);
EvGetVars ==
    /\ ev.pc = "get" /\ ev.mode = "STRESS_EFI_VARS"
    /\ \E read_ok \in BOOLEAN, attributes \in {0, 1} :
          IF ~read_ok
          THEN EvStep([ev EXCEPT !.ignore = Mark(@, ev.i), !.entry = ev.i,
                                 !.why = "read", !.i = @ + 1, !.pc = "for"])
          ELSE /\ ev' = [ev EXCEPT
                     !.ignore = IF attributes = 0
                                THEN Mark(@, IgnoreIndex(ev.i, AfterSysfsLoop))
                                ELSE @,
                     !.entry = IF attributes = 0 THEN ev.i ELSE @,
                     !.why = IF attributes = 0 THEN "attributes" ELSE @,
                     !.i = @ + 1, !.pc = "for"]
               /\ counter' = inc_counter(counter)
               /\ UNCHANGED <<keep, equiet>>

\* ret = get_variable_sysfs_efi_efivars(..); if (ret < 0) { efi_ignore[i] =
\* true; continue; } inc_counter(args);
EvGetEfivars ==
    /\ ev.pc = "get" /\ ev.mode = "STRESS_EFI_EFIVARS"
    /\ \E read_ok \in BOOLEAN :
          IF ~read_ok
          THEN EvStep([ev EXCEPT !.ignore = Mark(@, ev.i), !.entry = ev.i,
                                 !.why = "read", !.i = @ + 1, !.pc = "for"])
          ELSE /\ ev' = [ev EXCEPT !.i = @ + 1, !.pc = "for"]
               /\ counter' = inc_counter(counter)
               /\ UNCHANGED <<keep, equiet>>

\* do { efi_vars_get(..); } while (keep_stressing(args));
EvWhile ==
    /\ ev.pc = "while"
    /\ EvStep([ev EXCEPT !.i = 0,
                         !.pc = IF keep_stressing THEN "for" ELSE "done"])

NextEfivar ==
    \/ EvFor
    \/ EvGetVars
    \/ EvGetEfivars
    \/ EvWhile
    \/ StopRun

SpecEfivar == InitEfivar /\ [][NextEfivar]_vars

(***************************************************************************)
\* a pid value that must never be signalled: <= 1 or the caller itself
Protected(p) == (p <= 1) \/ (p = MyPid)

InReapLoop == pc \in {"wur_wait", "wur_probe", "wur_retry"}

AnyWait == \E p \in PidVals : waited[p] > 0

\* C1: in stress_kill_and_wait_many, once the first waitpid has been issued
\* on any pid of the list, signum has been sent to every eligible pid of it.
C1_KillBeforeReap ==
    (op = "many" /\ AnyWait) =>
        \A k \in 1..n_pids : ~Protected(pids[k]) => sent[pids[k]] >= 1

\* the first wait of a bulk request over three live children has been issued
C1_Witness ==
    /\ op = "many"
    /\ Targets = Children
    /\ waited[Child(1)] = 1
    /\ \A k \in 2..n_pids : waited[Child(k)] = 0 /\ sent[Child(k)] = 1

\* C2: stress_kill_and_wait called with pid 0, 1 or the caller's own pid
\* issues no kill (signum, probe or forced) and no wait, and has logged the
\* warning once, in each call, when it returns.
C2_ProtectedNoOp ==
    (op = "one" /\ KawWarn(pids[1])) =>
        /\ \A p \in PidVals :
              sent[p] = 0 /\ probed[p] = 0 /\ killpid[p] = 0 /\ waited[p] = 0
        /\ pc = "done" => warned[pids[1]] = ncall

\* stress_kill_and_wait(1) has returned
C2_Witness == op = "one" /\ pids[1] = 1 /\ pc = "done" /\ warned[1] = 1

\* C3: after 130 consecutive interrupted waits on a target that stays alive,
\* all with the stop decision in force, the forced kill has been issued
\* exactly once and the forced-kill counter has been incremented by exactly 1.
C3_ForcedOnce ==
    (/\ op = "one"
     /\ set_force_killed_counter
     /\ pc = "wur_wait"
     /\ count = 130
     /\ sent[pid] = 131
     /\ proc[pid] = "running") =>
        killpid[pid] = 1 /\ forced = 1

\* C4 as claimed: whatever else is true of the run, a target that is still
\* there after more than 120 interrupted waits has been sent the forced kill.
C4_AlwaysEscalates ==
    (pc = "wur_wait" /\ count > ForceKillCount) => killpid[pid] >= 1

\* C4: a target that is still there after more than 120 interrupted waits has
\* been sent the forced kill, provided keep_stressing_flag() was false in the
\* iteration that counted the last interruption.
C4_EscalatesWhenStopping ==
    (pc = "wur_wait" /\ count > ForceKillCount /\ kflag = "stop") =>
        killpid[pid] >= 1

\* the 121st interruption under the stop decision forced the kill
C4_Witness ==
    /\ pc = "wur_wait"
    /\ count = ForceKillCount + 1
    /\ kflag = "stop"
    /\ killpid[pid] = 1
    /\ proc[pid] = "running"

\* C5: once stress_killpid has been invoked on a target, no further waitpid
\* is issued on that target.
C5_GivesUpAfterForce ==
    [][\A p \in PidVals : killpid[p] > 0 => waited'[p] = waited[p]]_vars

\* C6: when the wait was interrupted and the probe kill(pid, 0) fails with
\* ESRCH, stress_wait_until_reaped returns in that step: count is not
\* incremented, signum is not re-sent, no forced kill is issued, the
\* forced-kill counter is untouched and nothing is logged.
C6_GoneIsReaped ==
    [][(pc = "wur_probe" /\ err' = "ESRCH") =>
          /\ err = "EINTR"
          /\ ~InReapLoop'
          /\ returned' = returned \cup {pid}
          /\ count' = count
          /\ sent' = sent
          /\ waited' = waited
          /\ killpid' = killpid
          /\ forced' = forced
          /\ warned' = warned]_vars

\* the reap loop has returned because the probe found the target gone
C6_Witness ==
    /\ err = "ESRCH"
    /\ ret = -1
    /\ pid \in returned
    /\ probed[pid] = 1
    /\ ~InReapLoop

\* C7: a waitpid that succeeds or fails with an error other than EINTR ends
\* stress_wait_until_reaped in that step: no signal is sent, no probe is
\* made and the forced-kill counter is untouched.
C7_ResolvedWaitReturns ==
    [][(pc = "wur_wait" /\ waited' # waited /\ (ret' >= 0 \/ err' # "EINTR")) =>
          /\ ~InReapLoop'
          /\ returned' = returned \cup {pid}
          /\ sent' = sent
          /\ probed' = probed
          /\ killpid' = killpid
          /\ forced' = forced]_vars

\* the reap loop has returned because waitpid failed with ECHILD
C7_Witness ==
    /\ err = "ECHILD"
    /\ ret = -1
    /\ pid \in returned
    /\ waited[pid] >= 1
    /\ ~InReapLoop

\* C8: when stress_kill_and_wait has returned for a pid that was running when
\* it was called, the pid is no longer in the process table, so that
\* kill(pid, 0) fails with ESRCH.
C8_GoneAfterReturn ==
    \A p \in returned \cap entered :
        proc[p] = "none" /\ ProbeOutcome(p) = <<-1, "ESRCH">>

\* stress_kill_and_wait has returned for a child that was running when called,
\* after at least one interrupted wait
C8_Witness ==
    \E p \in returned \cap entered : proc[p] = "none" /\ probed[p] >= 1

\* C9 as claimed: when stress_kill_and_wait_many has returned, every list
\* element equal to 0, 1 or the caller's pid has never been signalled and has
\* been logged as an ignored attempt.
C9_ExcludedAndLogged ==
    (op = "many" /\ pc = "done") =>
        \A k \in 1..n_pids :
            KawWarn(pids[k]) => (sent[pids[k]] = 0 /\ warned[pids[k]] >= 1)

\* C9: in stress_kill_and_wait_many every list element equal to 0, 1 or the
\* caller's pid is skipped silently: it is never signalled, probed, force
\* killed or waited on, and no warning is logged for it.
C9_ExcludedSilently ==
    op = "many" =>
        \A k \in 1..n_pids :
            KawWarn(pids[k]) =>
                /\ sent[pids[k]] = 0
                /\ probed[pids[k]] = 0
                /\ killpid[pids[k]] = 0
                /\ waited[pids[k]] = 0
                /\ warned[pids[k]] = 0

\* a bulk request over <<0, child, own pid>> has returned with the child reaped
C9_Witness ==
    /\ op = "many"
    /\ pc = "done"
    /\ pids[1] = 0
    /\ pids[2] = Child(2)
    /\ pids[3] = MyPid
    /\ Child(2) \in returned

\* C10: neither entry point ever issues a kill (signum, probe or forced) or a
\* wait for a pid value <= 1 or for the caller's own pid.
C10_NeverTouchProtected ==
    \A p \in PidVals :
        Protected(p) =>
            sent[p] = 0 /\ probed[p] = 0 /\ killpid[p] = 0 /\ waited[p] = 0

\* a bulk request over the array a failed second fork leaves, <<child, -1, 0>>,
\* has returned with the child signalled and waited on
C10_Witness ==
    /\ op = "many"
    /\ pc = "done"
    /\ pids[1] = Child(1)
    /\ pids[2] = -1
    /\ pids[3] = 0
    /\ sent[Child(1)] >= 2
    /\ waited[Child(1)] >= 1

\* C11: stress_kill_and_wait_many over three children of which one had
\* already exited when it was called: the single wait on the exited pid is
\* never blocked and never retried, nothing is logged, and when the call has
\* returned each child has been signalled, waited on and reaped, the
\* stress_kill_and_wait calls having returned in list order.
C11_OneExited ==
    (op = "many" /\ Targets = Children /\ Cardinality(alive0) = n_pids - 1) =>
        /\ warned = Zero
        /\ \A p \in Children \ alive0 :
              /\ waited[p] <= 1 /\ probed[p] = 0 /\ killpid[p] = 0
              /\ (pc = "wur_wait" /\ pid = p) => WaitOutcomes(p) # {}
        /\ pc = "done" =>
              /\ order = <<Child(1), Child(2), Child(3)>>
              /\ \A p \in Children :
                    sent[p] >= 1 /\ waited[p] >= 1 /\ proc[p] = "none"

\* the bulk request has returned; the second child had exited before the call
\* and the other two were running when their reap began
C11_Witness ==
    /\ op = "many"
    /\ pc = "done"
    /\ Targets = Children
    /\ alive0 = {Child(1), Child(3)}
    /\ entered = {Child(1), Child(3)}
    /\ order = <<Child(1), Child(2), Child(3)>>

\* C12: a second stress_kill_and_wait on a child pid whose first call has
\* returned sends signum once more, issues one waitpid that fails at once
\* with ECHILD and returns: no probe, no retry, no forced kill, no log, and
\* the process table is as the first call left it.
C12_SecondCallReturns ==
    (op = "one" /\ ncall >= 2 /\ pid \in Children) =>
        /\ pc \in {"kaw", "wur_wait", "done"}
        /\ proc = snap.proc /\ proc[pid] = "none"
        /\ probed = snap.probed
        /\ killpid = snap.killpid
        /\ forced = snap.forced
        /\ warned = snap.warned
        /\ returned = snap.returned
        /\ pc = "wur_wait" => WaitOutcomes(pid) = {<<-1, "ECHILD">>}
        /\ pc = "done" =>
              /\ ret = -1 /\ err = "ECHILD"
              /\ waited[pid] = snap.waited[pid] + 1
              /\ sent[pid] = snap.sent[pid] + 1

\* the second call on a child that was running when the first call began has
\* returned
C12_Witness ==
    /\ op = "one"
    /\ ncall = 2
    /\ pc = "done"
    /\ pid \in entered
    /\ err = "ECHILD"
    /\ waited[pid] = snap.waited[pid] + 1

(***************************************************************************)
(* C13.  At any time at most one live process executes inc_counter on the  *)
(* operation counter of a stressor instance: no two workers are inside     *)
(* the increment at once.                                                  *)
(***************************************************************************)
Incrementing == {w \in Workers : Alive(w) /\ wpc[w] \in {"inc", "store"}}

C13_OneIncrementer == Cardinality(Incrementing) <= 1

(***************************************************************************)
(* C14.  The operation counter never decreases: no step of any worker      *)
(* leaves it smaller than it was, so no read returns less than an earlier  *)
(* read.                                                                   *)
(***************************************************************************)
C14_CounterMonotone == [][counter' >= counter]_vars

(***************************************************************************)
(* C15.  The merged stop decision, the negation of keep_stressing(args),   *)
(* never reverts: once it says stop, no step makes it say continue.        *)
(***************************************************************************)
C15_StopMonotone == [][~keep_stressing => ~keep_stressing']_vars

(***************************************************************************)
(* Spawn steps: what a run has shown of the current one.                    *)
(***************************************************************************)
\* errno values of a transient lack of resources: process slots, memory
Transient == {"EAGAIN", "ENOMEM"}

ExitFailures == {"EXIT_FAILURE", "EXIT_NO_RESOURCE"}

LastTry == fhist[Len(fhist)]

Failed(j) == fhist[j].err # "0"

\* the current spawn step has ended: it has a child, or the parent has left
\* the fork statement for good
SpawnOver == fhist # <<>> /\ (~Failed(Len(fhist)) \/ spc # "fork")

\* every failure of the current spawn step was transient and met while
\* the run should continue
OnlyTransient == \A j \in 1..Len(fhist) :
                    Failed(j) => fhist[j].err \in Transient /\ fhist[j].keep

(***************************************************************************)
(* C16.  A spawn step that meets transient failures while the run should   *)
(* continue, two of them at most, ends only with the success of the next   *)
(* attempt: it has then retried once per failure, holds the pid of a       *)
(* child, has logged no failure and returns no failure exit status.  This  *)
(* holds for the spawn step of every stressor.                             *)
(***************************************************************************)
C16_RetriesToSuccess ==
    (SpawnOver /\ OnlyTransient /\ Cardinality({j \in 1..Len(fhist) : Failed(j)}) <= 2)
        => /\ ~Failed(Len(fhist))
           /\ \A j \in 1..(Len(fhist) - 1) : Failed(j)
           /\ cpid \in Children
           /\ proc[cpid] # "none"
           /\ flog = <<>>
           /\ retval \notin ExitFailures

(***************************************************************************)
(* C17.  When the stop predicate has become false while a spawn step is    *)
(* retrying after transient failures, the step is abandoned cleanly: no    *)
(* failure message is logged and no failure exit status is returned.       *)
(***************************************************************************)
C17_CleanAbandon ==
    (/\ Len(fhist) >= 2
     /\ \A j \in 1..Len(fhist) : Failed(j) /\ fhist[j].err \in Transient
     /\ fhist[1].keep
     /\ ~LastTry.keep
     /\ spc # "fork")
        => flog = <<>> /\ retval \notin ExitFailures

(***************************************************************************)
(* C18.  A spawn step that fails for a reason that is not transient while  *)
(* the run should continue is fatal and visible: the failure is logged     *)
(* with its errno and the stressor returns a failure exit status, never    *)
(* success.                                                                *)
(***************************************************************************)
C18_FatalAndVisible ==
    (fhist # <<>> /\ Failed(Len(fhist)) /\ LastTry.err \notin Transient /\ LastTry.keep)
        => /\ flog # <<>>
           /\ flog[Len(flog)] = LastTry.err
           /\ spc = "returned" => retval \in ExitFailures

(***************************************************************************)
(* C19, as stated.  The retry loop is bounded: when every attempt the      *)
(* environment lets fail has failed transiently with the run continuing,   *)
(* the spawn step has ended.                                               *)
(***************************************************************************)
AllFailedTransient ==
    /\ Len(fhist) = MaxForkFail
    /\ \A j \in 1..Len(fhist) : Failed(j) /\ fhist[j].err \in Transient /\ fhist[j].keep

RetriesOn(st) ==
    CASE st = "udp" -> {"EAGAIN"}
      [] st \in {"pipe", "rawpkt", "efivar"} -> Transient
      [] OTHER -> {}

C20_AlarmFirst ==
    \A c \in Children : wpc[c] \notin {"unborn", "forked", "getpid"} => c \in alarmed

C20_Witness ==
    /\ \E c \in Children : wpc[c] = "work" /\ c \in alarmed /\ proc[c] = "running"
    /\ stressor = "efivar"

(***************************************************************************)
(* C29.  stress_wait_until_reaped calls stress_killpid, and increments the *)
(* forced-kill counter, only in a retry step: after an interrupted wait    *)
(* and a probe that did not report ESRCH, with keep_stressing_flag() false *)
(* and more than 120 interruptions counted.  While the flag is true no     *)
(* step of the reap loop sends signum or forces the kill.                  *)
(***************************************************************************)
\* interruptions the environment has delivered to the caller so far
Interrupted == (IF op = "one" THEN MaxEintr ELSE MaxEintrMany) - budget

C29_ForceOnlyWhen ==
    [][/\ (killpid' # killpid \/ forced' # forced) =>
              /\ pc = "wur_retry"
              /\ ~ProbeGone(ret, err)
              /\ ~keep
              /\ count' > ForceKillCount
              /\ count' <= Interrupted
              /\ killpid' = Bump(killpid, pid)
       /\ (InReapLoop /\ keep) =>
              sent' = sent /\ killpid' = killpid /\ forced' = forced]_vars

\* the forced kill has just been issued, at the 121st interruption
C29_Witness ==
    /\ pc = "wur_wait" /\ count = ForceKillCount + 1 /\ ~keep
    /\ pid \in Children /\ killpid[pid] = 1 /\ proc[pid] = "running"

(***************************************************************************)
(* C30.  When no wait is interrupted, stress_kill_and_wait_many sends      *)
(* signum to every eligible pid twice: once in the kill loop and once in   *)
(* stress_kill_and_wait right before the wait on that pid.  The second     *)
(* signal to a pid is sent only when every eligible pid before it in the   *)
(* array has been reaped.                                                  *)
(***************************************************************************)
C30_TwoSignals ==
    (op = "many") =>
        /\ \A k \in 1..n_pids :
              (ManyKillOk(pids[k]) /\ sent[pids[k]] >= 2) =>
                  \A j \in 1..(k - 1) :
                      ManyKillOk(pids[j]) =>
                          /\ pids[j] \in returned
                          /\ waited[pids[j]] >= 1
                          /\ ProcState(pids[j]) = "none"
        /\ (pc = "wur_wait" /\ Interrupted = 0) => sent[pid] = 2 /\ waited[pid] = 0
        /\ (pc = "done" /\ Interrupted = 0) =>
              \A k \in 1..n_pids :
                  ManyKillOk(pids[k]) => sent[pids[k]] = 2 /\ waited[pids[k]] = 1

C30_Witness ==
    /\ op = "many" /\ pc = "done" /\ Interrupted = 0 /\ Targets = Children
    /\ \A p \in Children : sent[p] = 2 /\ waited[p] = 1 /\ alive0 = Children

(***************************************************************************)
(* C25.  Every forced kill of a worker is visible to the user: it is       *)
(* recorded when it is issued.  The reap loop logs no message of its own   *)
(* at a forced kill; the record it keeps, from which a warning can be      *)
(* reported, is the forced-kill counter.                                   *)
(***************************************************************************)
C25_ForcedKillLogged ==
    \A p \in Children : killpid[p] > 0 => forced > 0

CallAt(j, call) == j \in 1..Len(kp.log) /\ kp.log[j].call = call

C23_HandleKillRelease ==
    \A j \in 1..Len(kp.log) :
        /\ (kp.linux /\ CallAt(j, "kill")) => j = 2 /\ CallAt(1, "pidfd_open")
        /\ CallAt(j, "process_mrelease") =>
              /\ j = 3
              /\ CallAt(2, "kill") /\ kp.log[2].ret = 0
              /\ CallAt(1, "pidfd_open") /\ kp.log[1].ret = kp.pidfd /\ kp.pidfd >= 0

\* a call that opened the pidfd, killed, released and closed
C23_Witness ==
    /\ kp.pc = "done" /\ Len(kp.log) = 4
    /\ CallAt(3, "process_mrelease") /\ CallAt(4, "close")

(***************************************************************************)
(* C24.  stress_killpid returns the result of its kill(pid, SIGKILL) and   *)
(* leaves errno as that kill left it, whether or not the pidfd was         *)
(* obtained and whatever process_mrelease and close did.                   *)
(***************************************************************************)
KillCall == kp.log[IF kp.linux THEN 2 ELSE 1]

C24_KillResultKept ==
    (kp.pc = "done") =>
        /\ KillCall.call = "kill"
        /\ kp.result = KillCall.ret
        /\ kp.errno = KillCall.errno

\* the kill failed with EPERM and the close of the pidfd failed after it
C24_Witness ==
    /\ kp.pc = "done" /\ kp.result = -1 /\ kp.errno = "EPERM"
    /\ Len(kp.log) = 3 /\ kp.log[3].ret = -1 /\ kp.log[3].errno = "EINTR"


\* the step runs the statement that opens an iteration of the main loop
StartsIteration == wl.pc \in {"lock", "mlock", "write", "read"} /\ wl' # wl

\* C21: once the stop predicate is false, the worker's main loop starts no
\* further iteration and increments the counter no further
C21_StopsAtBoundary ==
    [][~keep_stressing => (counter' = counter /\ ~StartsIteration)]_vars

\* C26: each metric slot is written at most once, and only when the
\* worker's main loop has ended
C26_WrittenOnceAtTeardown ==
    \A s \in Slots : wl.writes[s] <= 1 /\ (wl.writes[s] > 0 => wl.pc = "done")

\* two quotients with positive divisors are the same number
RatEq(a, b) == a[1] * b[2] = b[1] * a[2]

\* the step writes metric slot s
Writes(s) == wl'.writes[s] > wl.writes[s]

\* C27 as stated: every rate written is the accumulated duration divided by
\* the accumulated count, and zero when the count is zero
C27_DurationOverCount ==
    [][\A s \in Slots : Writes(s) =>
          /\ wl'.metrics[s].rate[2] > 0
          /\ RatEq(wl'.metrics[s].rate,
                   IF wl'.count[s] > 0 THEN <<wl'.duration[s], wl'.count[s]>>
                                       ELSE <<0, 1>>)]_vars

\* C27: every rate written is a quotient of the accumulated duration and
\* count, duration by count for the times per call of flock, mlock and
\* userfaultfd and count by duration for the rates per second of pipe and
\* efivar; the divisor is positive whenever the division is made, the rate
\* is zero when the divisor is zero, and it is zero when the count is zero
C27_GuardedQuotient ==
    [][\A s \in Slots : Writes(s) =>
          LET r == wl'.metrics[s].rate
              d == wl'.duration[s]
              c == wl'.count[s]
          IN  /\ r[2] > 0
              /\ c = 0 => r[1] = 0
              /\ IF wl.st \in {"flock", "mlock", "userfaultfd"}
                 THEN RatEq(r, IF c > 0 THEN <<d, c>> ELSE <<0, 1>>)
                 ELSE RatEq(r, IF d > 0 THEN <<c, d>> ELSE <<0, 1>>)]_vars

\* efivar has reported more than one read per tick, a rate that is not the
\* duration divided by the count
C27_Witness ==
    /\ wl.st = "efivar" /\ wl.pc = "done" /\ wl.writes[0] = 1
    /\ wl.duration[0] > 0 /\ wl.count[0] > wl.duration[0]
    /\ wl.metrics[0].rate = <<wl.count[0], wl.duration[0]>>

\* C28: every worker killed while the wrapper finds the run should continue
\* is replaced by exactly one new worker, and each replacement finds the
\* counter as it was when the worker before it was found killed
C28_RespawnsOnePreserved ==
    /\ oom.pc \in {"wait", "done"} => oom.spawned = oom.killed + 1
    /\ oom.pc = "spawn" => oom.spawned = oom.killed
    /\ \A k \in 1..Len(oom.start) :
          oom.start[k] = IF k = 1 THEN 0 ELSE oom.death[k - 1]

\* a replacement worker runs after the first was killed with operations done,
\* and it has added to them
C28_Witness ==
    /\ oom.spawned = 2 /\ oom.killed = 1 /\ oom.pc = "wait"
    /\ oom.start[2] > 0 /\ counter > oom.start[2]


\* the last fork of stress_flock's fork loop failed
FlockForkFailed == stressor = "flock" /\ fhist # <<>> /\ Failed(Len(fhist))

\* C31: when the fork of worker fi + 1 of stress_flock has failed, no later
\* worker exists, the parent runs no payload, the failed and the unused
\* slots of pids are never signalled nor waited for, and when stress_flock
\* has returned every child forked before has been sent SIGALRM and reaped
\* and the exit status is EXIT_FAILURE
C31_ForkFailureReaps ==
    FlockForkFailed =>
        /\ spc # "payload" /\ wpc[MyPid] = "spawn"
        /\ \A k \in (fi + 1)..n_pids : proc[Child(k)] = "none"
        /\ pids[fi + 1] = -1 /\ \A k \in (fi + 2)..n_pids : pids[k] = 0
        /\ \A p \in NonChild : sent[p] = 0 /\ waited[p] = 0 /\ killpid[p] = 0
        /\ spc = "returned" =>
              /\ retval = "EXIT_FAILURE"
              /\ \A k \in 1..fi :
                    /\ sent[Child(k)] >= 1
                    /\ reaps[Child(k)] = 1
                    /\ proc[Child(k)] = "none"

\* the third fork failed, the two children were signalled and reaped, and
\* stress_flock has returned
C31_Witness ==
    /\ FlockForkFailed /\ spc = "returned" /\ fi = 2
    /\ reaps[Child(1)] = 1 /\ reaps[Child(2)] = 1 /\ retval = "EXIT_FAILURE"


\* C32: in stress_flock_child an unlock has been attempted for every lock
\* acquired before the next lock is attempted and before the loop is left,
\* and the counter is incremented only while the lock is in place and only
\* when the stop predicate, read after the acquisition, said continue
C32_LockDiscipline ==
    [][wl.st = "flock" =>
          /\ wl'.pc \in {"lock", "pre", "teardown", "done"} => ~wl'.acquired
          /\ counter' # counter => wl.acquired /\ wl.locked /\ wl.cont]_vars


\* C35: stress_userfaultfd_child, its child cloned, reaches the unregister
\* ioctl, the unmapping and its return only after it has left the
\* fault-handling loop and called stress_kill_and_wait once on the child's
\* pid with SIGALRM, whatever the reason for which the loop was left
C35_ReapsBeforeUnregister ==
    (wl.st = "userfaultfd" /\ wl.pc \in {"unreg", "done"}) =>
        /\ wl.why \in {"flag", "poll", "read", "handle_page_fault", "while"}
        /\ Len(wl.kaw) = 1
        /\ wl.kaw[1].pid = Child(1) /\ wl.kaw[1].signum = "SIGALRM"

\* the loop was left because handle_page_fault failed, and the function has
\* returned after reaping the child
C35_Witness ==
    /\ wl.st = "userfaultfd" /\ wl.pc = "done" /\ wl.why = "handle_page_fault"
    /\ Len(wl.kaw) = 1 /\ keep


\* C34: with verification enabled the reader of stress_pipe never finds in
\* the first word of a message another value than the one it expects
C34_InStep == pp.verify => ~pp.mismatch

C36_TagClearedAllUnmapped ==
    /\ ~ml.odd
    /\ ml.pc \in {"while", "done"} => ml.iter \cap ml.as = {}


\* C37: when the client child of stress_udp or stress_rawpkt has ended by
\* itself, with success or with failure, its last call before _exit was the
\* SIGALRM sent to its parent, sent once
C37_InformsParent ==
    cl.cpc = "exited" =>
        /\ cl.calls = <<"kill(ppid, SIGALRM)", "_exit">>
        /\ cl.alarms = 1

\* the client of stress_udp has ended on a failed set-up after informing
\* its parent, which is still in its server
C37_Witness ==
    /\ cl.st = "udp" /\ cl.cpc = "exited" /\ cl.rc = "EXIT_FAILURE"
    /\ cl.alarms = 1 /\ cl.ppc = "server"


\* C38: for every vector type and every shift that stress_vecshuf_set_mask
\* chooses, the shift is in 1..N/2, and outside the middle of a pass of the
\* shuffle loop the shuffled vector s equals the original o, so that
\* stress_vecshuf_check_data has reported no failure
C38_ShuffleRoundTrip ==
    /\ vs.pc \notin {"set_mask", "off"} => vs.shift \in 1 .. (vs.elements \div 2)
    /\ vs.pc \notin {"shuffle2", "off"} => vs.s = vs.o
    /\ vs.pc # "off" => ~vs.fail

\* a vector of different elements was moved by the first shuffle of a second
\* call, after a first call that was checked
C38_Witness ==
    /\ vs.pc = "shuffle2" /\ vs.calls = 1 /\ vs.i = 1
    /\ vs.elements = 64 /\ vs.shift = 32
    /\ vs.tmp # vs.o
    /\ \A j \in DOMAIN vs.tmp : vs.tmp[j] = vs.o[(j + 32) % 64]


\* C39: stress_mmapfixed_is_mapped_slow walks exactly the region
\* [addr, addr + len): every range it passes to mincore lies inside the
\* region, the walk ends when exactly len bytes are covered, and it
\* returns true only for a page inside the region
C39_WalksExactlyRegion ==
    (mf.pc # "off" /\ mf.slow) =>
        /\ mf.calls > 0 => (0 <= mf.lo /\ mf.hi <= mf.len)
        /\ (mf.pc = "while" /\ mf.n <= 0) => mf.addr = mf.len
        /\ (mf.result = "true" /\ mf.found) => mf.hi <= mf.len


\* C40: processing directory entry i changes at most efi_ignore[i]; the
\* flag of every other entry is left as it was
C40_ChangesOnlyOwnFlag ==
    [][ev.pc # "off" =>
          \A j \in DOMAIN ev.ignore :
              ev'.ignore[j] # ev.ignore[j] => j = ev.i]_vars

====
